---- MODULE Spec2Model ----
(***************************************************************************)
(* Verification model of the KV_Database storage engine (Rust): the page   *)
(* serialization layer (serde.rs), the page cache (buffer/mod.rs,          *)
(* buffer/lru.rs), the AVL memtable (memtable/tree.rs), the append-only,   *)
(* B-tree and LSM backends (serde.rs, storage/btree.rs, storage/lsm.rs,    *)
(* storage/part3btree.rs) and the Client handle (lib.rs).                  *)
(*                                                                         *)
(* Scaling.  A page holds ENTRIES 16-byte blocks (256 in the source); a    *)
(* block is a pair of big-endian words.  64-bit words are scaled to        *)
(* WordBits-bit two's complement words, so i64::MIN is -(2^(WordBits-1))   *)
(* and the padding word de ad be ef .. is its leading WordBits bits.       *)
(* Offsets and file lengths are counted in blocks, PAGE_SIZE == ENTRIES.   *)
(***************************************************************************)
EXTENDS Integers, Sequences, FiniteSets, TLC

\* ------------------------------------------------------------------ bounds
ENTRIES == 3
WordBits == 4
MaxRecs == 7
MaxOps == 4
MaxCap == 2
MaxFiles == 2
MaxTrace == 4
MaxMem == 2
MaxGets == 2
MaxMemKeys == 5
MaxFlushes == 4
MaxBits == 6
MaxLeaves == 5

\* ------------------------------------------------------------- word level
WordMod == 2 ^ WordBits
I64_MIN == 0 - (WordMod \div 2)
I64_MAX == (WordMod \div 2) - 1
\* i64::to_be_bytes: the two's complement word of a signed integer
to_be_bytes(x) == x % WordMod
\* i64::from_be_bytes
from_be_bytes(w) == IF w >= WordMod \div 2 THEN w - WordMod ELSE w
\* the leading WordBits bits of the byte pattern de ad ..
PadWord == 57005 \div (2 ^ (16 - WordBits))
padding == <<PadWord, PadWord>>
\* the signed integer whose big-endian bytes are the padding word
PadKey == from_be_bytes(PadWord)
PAGE_SIZE == ENTRIES

Min(a, b) == IF a < b THEN a ELSE b
Max(a, b) == IF a > b THEN a ELSE b

\* ------------------------------------------------------------ file names
\* "{db}/output_{i}.bin", "{db}/output_leaf_{L}_{R}.bin", "{db}/output_internal_{L}_{R}.bin"
OutputFile(i) == [kind |-> "output", level |-> 0, run |-> i]
LeafFile(l, r) == [kind |-> "leaf", level |-> l, run |-> r]
InternalFile(l, r) == [kind |-> "internal", level |-> l, run |-> r]

\* ------------------------------------------------------------- serde.rs
\* faulty variant of pad_page_bytes: a whole page of padding follows a full page
pad_page_bytes_always(bytes) ==
  bytes \o [i \in 1..(PAGE_SIZE - (Len(bytes) % PAGE_SIZE)) |-> padding]

\* pad_page_bytes: append padding blocks up to the next multiple of PAGE_SIZE
pad_page_bytes(bytes) ==
  LET padding_size == IF Len(bytes) % PAGE_SIZE # 0
                      THEN PAGE_SIZE - (Len(bytes) % PAGE_SIZE) ELSE 0
  IN  bytes \o [i \in 1..padding_size |-> padding]

\* the byte image serialize_kv_to_file / flush_output_buffer build for kv_arr
encode_kv(kv_arr) ==
  pad_page_bytes([i \in 1..Len(kv_arr) |->
                    <<to_be_bytes(kv_arr[i][1]), to_be_bytes(kv_arr[i][2])>>])

\* serialize_kv_to_file: create the file if absent, append the padded image
serialize_kv_to_file(d, file_path, kv_arr) ==
  LET old == IF file_path \in DOMAIN d THEN d[file_path] ELSE <<>>
  IN  [f \in DOMAIN d \cup {file_path} |->
         IF f = file_path THEN old \o encode_kv(kv_arr) ELSE d[f]]

\* the loop of deserialize_page that trims trailing padding blocks
RECURSIVE non_padding_idx(_, _)
non_padding_idx(bytes, idx) ==
  IF idx >= 1 /\ bytes[idx] = padding THEN non_padding_idx(bytes, idx - 1) ELSE idx

\* deserialize_page: ok = FALSE is the fatal path (open or read_exact failed)
deserialize_page(d, file_path, page_offset) ==
  IF file_path \notin DOMAIN d \/ Len(d[file_path]) < page_offset + PAGE_SIZE
  THEN [ok |-> FALSE, arr |-> <<>>]
  ELSE LET bytes == SubSeq(d[file_path], page_offset + 1, page_offset + PAGE_SIZE)
           n == non_padding_idx(bytes, Len(bytes))
       IN  [ok |-> TRUE,
            arr |-> [i \in 1..n |-> <<from_be_bytes(bytes[i][1]), from_be_bytes(bytes[i][2])>>]]

\* metadata(file).len() / PAGE_SIZE
total_pages_of(d, file_path) ==
  IF file_path \in DOMAIN d THEN Len(d[file_path]) \div PAGE_SIZE ELSE 0

\* ------------------------------------------------- buffer/mod.rs, lru.rs
\* Rc/Weak pointers are node identifiers; Nil is None.  node and lru are the
\* heaps of live BufferNode and LRUNode objects; an object leaves its heap when
\* its last strong reference (Rc) is dropped.
Nil == 0
NoPanic == "none"

\* BufferPool::new
BufferPoolNew(buffer_size) ==
  [size |-> buffer_size, curr_size |-> 0,
   buffer |-> [b \in 0..(buffer_size - 1) |-> Nil],
   node |-> <<>>, lru |-> <<>>,
   front_q |-> Nil, back_q |-> Nil, panic |-> NoPanic]

BufferKey(sst_name, page_offset) == [sst_name |-> sst_name, page_offset |-> page_offset]

\* stand-in for twox_hash xxh3 hash64 of the string "{sst_name} {page_offset}":
\* a fixed function of the key with collisions modulo the pool size
hash64(key) ==
  (IF key.sst_name.kind = "internal" THEN 1 ELSE 0)
    + 2 * key.sst_name.level + 3 * key.sst_name.run + 5 * (key.page_offset \div PAGE_SIZE)

\* custom_hash
custom_hash(key, arr_size) == hash64(key) % arr_size

Fail(p, msg) == [p EXCEPT !.panic = IF p.panic = NoPanic THEN msg ELSE p.panic]

\* number of strong references (Rc) held on LRUNode id
LruStrong(p, id) ==
  (IF p.front_q = id THEN 1 ELSE 0) + (IF p.back_q = id THEN 1 ELSE 0)
  + Cardinality({x \in DOMAIN p.lru : p.lru[x].next = id})
  + Cardinality({x \in DOMAIN p.lru : p.lru[x].prev = id})

\* number of strong references (Rc) held on BufferNode id
NodeStrong(p, id) ==
  Cardinality({b \in DOMAIN p.buffer : p.buffer[b] = id})
  + Cardinality({x \in DOMAIN p.node : p.node[x].next = id})
  + Cardinality({x \in DOMAIN p.node : p.node[x].prev = id})

\* drop(rc) of a local handle: the object is freed iff no strong reference is left
DropLru(p, id) ==
  IF LruStrong(p, id) = 0
  THEN [p EXCEPT !.lru = [x \in DOMAIN p.lru \ {id} |-> p.lru[x]]]
  ELSE p

DropNode(p, id) ==
  IF NodeStrong(p, id) = 0
  THEN [p EXCEPT !.node = [x \in DOMAIN p.node \ {id} |-> p.node[x]]]
  ELSE p

\* LRUMain::is_empty (the mismatch panic is LruMismatch)
LruMismatch(p) == (p.front_q = Nil) # (p.back_q = Nil)
is_empty(p) == p.front_q = Nil /\ p.back_q = Nil

\* faulty variant of add_node: the new node is linked in at the front (eviction) end
add_node_at_front(p, id) ==
  IF is_empty(p) THEN [p EXCEPT !.front_q = id, !.back_q = id]
  ELSE LET old_front == p.front_q
       IN  [p EXCEPT !.lru = [x \in DOMAIN p.lru |->
                                IF x = old_front THEN [p.lru[x] EXCEPT !.next = id]
                                ELSE IF x = id THEN [p.lru[x] EXCEPT !.prev = old_front]
                                ELSE p.lru[x]],
                     !.front_q = id]

\* LRUMain::add_node
add_node(p, id) ==
  IF LruMismatch(p) THEN Fail(p, "LRU queue front and back mismatch!")
  ELSE IF is_empty(p) THEN [p EXCEPT !.front_q = id, !.back_q = id]
  ELSE LET old_back == p.back_q
       IN  [p EXCEPT !.lru = [x \in DOMAIN p.lru |->
                                IF x = old_back /\ x = id
                                  THEN [p.lru[x] EXCEPT !.prev = id, !.next = old_back]
                                ELSE IF x = old_back THEN [p.lru[x] EXCEPT !.prev = id]
                                ELSE IF x = id THEN [p.lru[x] EXCEPT !.next = old_back]
                                ELSE p.lru[x]],
                     !.back_q = id]

\* faulty variant of update_lru_position: a hit leaves the LRU order untouched
update_lru_position_noop(p, id) == p

\* LRUMain::update_lru_position
update_lru_position(p, id) ==
  IF LruMismatch(p) THEN Fail(p, "LRU queue front and back mismatch!")
  ELSE IF is_empty(p) THEN Fail(p, "LRU should not be empty at this point!")
  ELSE IF p.back_q = id THEN p
  ELSE LET prev_wrapped == p.lru[id].prev
           next_wrapped == p.lru[id].next
       IN  add_node(
             [p EXCEPT
                !.lru = [x \in DOMAIN p.lru |->
                           IF x = id THEN [p.lru[x] EXCEPT !.prev = Nil, !.next = Nil]
                           ELSE IF x = prev_wrapped /\ x = next_wrapped
                             THEN [p.lru[x] EXCEPT !.next = next_wrapped, !.prev = prev_wrapped]
                           ELSE IF x = prev_wrapped THEN [p.lru[x] EXCEPT !.next = next_wrapped]
                           ELSE IF x = next_wrapped THEN [p.lru[x] EXCEPT !.prev = prev_wrapped]
                           ELSE p.lru[x]],
                !.front_q = IF next_wrapped = Nil THEN prev_wrapped ELSE p.front_q], id)

\* LRUMain::next_to_evict: [pool, data]; data is the BufferNode to evict or Nil
next_to_evict(p) ==
  IF LruMismatch(p) THEN [pool |-> Fail(p, "LRU queue front and back mismatch!"), data |-> Nil]
  ELSE IF is_empty(p) THEN [pool |-> p, data |-> Nil]
  ELSE LET old_front == p.front_q
           data == IF p.lru[old_front].data \in DOMAIN p.node THEN p.lru[old_front].data ELSE Nil
           new_front == p.lru[old_front].prev
       IN  [pool |-> DropLru(
                       [p EXCEPT
                          !.lru = [x \in DOMAIN p.lru |->
                                     IF x = old_front THEN [p.lru[x] EXCEPT !.prev = Nil]
                                     ELSE IF x = new_front THEN [p.lru[x] EXCEPT !.next = Nil]
                                     ELSE p.lru[x]],
                          !.front_q = new_front,
                          !.back_q = IF new_front = Nil THEN Nil ELSE p.back_q], old_front),
            data |-> data]

\* faulty variant of unlink_evicted: the evicted entry stays on its bucket chain
unlink_evicted_keep(q, e) == [pool |-> q, evicted |-> TRUE]

\* BufferPool::run_eviction, the Some(evict_node) arm: unlink node e from its
\* bucket chain and drop it
unlink_evicted(q, e) ==
  IF q.node[e].lru_node \in DOMAIN q.lru
  THEN [pool |-> Fail(q, "assertion failed: lru_node.upgrade().is_none()"),
        evicted |-> FALSE]
  ELSE LET prev_wrapped == q.node[e].prev
           next_wrapped == q.node[e].next
           hash == custom_hash(q.node[e].key, q.size)
       IN  [pool |->
              [DropNode(
                 [q EXCEPT
                    !.node = [x \in DOMAIN q.node |->
                                IF x = e THEN [q.node[x] EXCEPT !.prev = Nil, !.next = Nil]
                                ELSE IF x = prev_wrapped /\ x = next_wrapped
                                  THEN [q.node[x] EXCEPT !.next = next_wrapped,
                                                         !.prev = prev_wrapped]
                                ELSE IF x = prev_wrapped
                                  THEN [q.node[x] EXCEPT !.next = next_wrapped]
                                ELSE IF x = next_wrapped
                                  THEN [q.node[x] EXCEPT !.prev = prev_wrapped]
                                ELSE q.node[x]],
                    !.buffer = IF prev_wrapped = Nil
                               THEN [q.buffer EXCEPT ![hash] = next_wrapped]
                               ELSE q.buffer], e)
               EXCEPT !.curr_size = q.curr_size - 1],
            evicted |-> TRUE]

\* BufferPool::run_eviction, the match on next_to_evict's result r
evict_result(r) ==
  IF r.pool.panic # NoPanic \/ r.data = Nil THEN [pool |-> r.pool, evicted |-> FALSE]
  ELSE unlink_evicted(r.pool, r.data)

\* BufferPool::run_eviction: [pool, evicted]; evicted = FALSE is the `false` return
run_eviction(p) == evict_result(next_to_evict(p))

\* the smallest identifier naming no live object (a fresh allocation)
RECURSIVE FreshFrom(_, _)
FreshFrom(p, i) ==
  IF i \in DOMAIN p.node \/ i \in DOMAIN p.lru THEN FreshFrom(p, i + 1) ELSE i
FreshId(p) == FreshFrom(p, 1)

\* BufferPool::insert after the eviction check: allocate the LRUNode and the
\* BufferNode (both named id), add_node, push on the front of the bucket chain
link_node(q, key, page, id) ==
  LET hash == custom_hash(key, q.size)
      old_root == q.buffer[hash]
  IN  [add_node(
         [q EXCEPT
            !.lru = [x \in DOMAIN q.lru \cup {id} |->
                       IF x = id THEN [data |-> id, next |-> Nil, prev |-> Nil]
                       ELSE q.lru[x]],
            !.node = [x \in DOMAIN q.node \cup {id} |->
                        IF x = id
                        THEN [key |-> key, page |-> page, lru_node |-> id,
                              next |-> old_root, prev |-> Nil]
                        ELSE IF x = old_root THEN [q.node[x] EXCEPT !.prev = id]
                        ELSE q.node[x]],
            !.buffer = [q.buffer EXCEPT ![hash] = id]], id)
       EXCEPT !.curr_size = q.curr_size + 1]

\* BufferPool::insert, given the outcome r of the eviction check
insert_after(r, key, page) ==
  IF r.pool.panic # NoPanic THEN r.pool
  ELSE IF ~r.evicted THEN Fail(r.pool, "Eviction failed when attempting overflow insert!")
  ELSE link_node(r.pool, key, page, FreshId(r.pool))

\* BufferPool::insert
insert(p, key, page) ==
  insert_after(IF p.curr_size = p.size THEN run_eviction(p)
               ELSE [pool |-> p, evicted |-> TRUE], key, page)

\* faulty variant of search_buffer_chain: keys are compared by page offset alone
RECURSIVE search_buffer_chain_by_offset(_, _, _)
search_buffer_chain_by_offset(p, key, curr_node) ==
  IF curr_node = Nil THEN Nil
  ELSE IF p.node[curr_node].key.page_offset = key.page_offset THEN curr_node
  ELSE search_buffer_chain_by_offset(p, key, p.node[curr_node].next)

\* search_buffer_chain
RECURSIVE search_buffer_chain(_, _, _)
search_buffer_chain(p, key, curr_node) ==
  IF curr_node = Nil THEN Nil
  ELSE IF p.node[curr_node].key = key THEN curr_node
  ELSE search_buffer_chain(p, key, p.node[curr_node].next)

\* BufferPool::search_buffer
search_buffer(p, key) ==
  IF p.size = 0 THEN Nil
  ELSE search_buffer_chain(p, key, p.buffer[custom_hash(key, p.size)])

\* faulty variant of find_page_miss: the page cached lacks its last record
find_page_miss_trimmed(p, key, r) ==
  IF ~r.ok
  THEN [pool |-> Fail(p, "Deserializer: file read failed!"), page |-> <<>>, hit |-> FALSE]
  ELSE [pool |-> insert(p, key, SubSeq(r.arr, 1, Len(r.arr) - 1)), page |-> r.arr,
        hit |-> FALSE]

\* BufferPool::find_page, the miss path, given deserialize_page's result r
find_page_miss(p, key, r) ==
  IF ~r.ok
  THEN [pool |-> Fail(p, "Deserializer: file read failed!"), page |-> <<>>, hit |-> FALSE]
  ELSE [pool |-> insert(p, key, r.arr), page |-> r.arr, hit |-> FALSE]

\* BufferPool::find_page, given the result good_node of search_buffer
find_page_found(p, d, key, good_node) ==
  IF p.panic # NoPanic THEN [pool |-> p, page |-> <<>>, hit |-> FALSE]
  ELSE IF good_node # Nil
  THEN [pool |-> IF p.node[good_node].lru_node \in DOMAIN p.lru
                 THEN update_lru_position(p, p.node[good_node].lru_node)
                 ELSE Fail(p, "called Option::unwrap() on a None value"),
        page |-> p.node[good_node].page, hit |-> TRUE]
  ELSE find_page_miss(p, key, deserialize_page(d, key.sst_name, key.page_offset))

\* BufferPool::find_page (with find_buffer_page): [pool, page, hit]
find_page(p, d, sst_name, page_offset) ==
  find_page_found(p, d, BufferKey(sst_name, page_offset),
                  search_buffer(p, BufferKey(sst_name, page_offset)))

\* ------------------------------------------------ memtable/node.rs, tree.rs
\* Option<T>: None is <<>>, Some(v) is <<v>>
None == <<>>
Some(v) == <<v>>

\* an AVLTreeNode is <<key, value, height, left, right>>; left and right are
\* Option<Box<AVLTreeNode>>: None or the child node itself
AVLTreeNodeNew(key, value) == <<key, value, 1, None, None>>

\* .as_ref().map_or(0, |x| x.height)
height_of(child) == IF child = None THEN 0 ELSE child[3]

\* AVLTreeNode::balance_factor
balance_factor(n) == height_of(n[4]) - height_of(n[5])

\* faulty variant of update_height: the stored height is left stale
update_height_stale(n) == n

\* AVLTreeNode::update_height
update_height(n) == [n EXCEPT ![3] = 1 + Max(height_of(n[4]), height_of(n[5]))]

\* left_rotate
left_rotate(root) ==
  update_height([root[5] EXCEPT ![4] = update_height([root EXCEPT ![5] = root[5][4]])])

\* right_rotate
right_rotate(root) ==
  update_height([root[4] EXCEPT ![5] = update_height([root EXCEPT ![4] = root[4][5]])])

\* left_right_rotate
left_right_rotate(root) == right_rotate([root EXCEPT ![4] = left_rotate(root[4])])

\* right_left_rotate
right_left_rotate(root) == left_rotate([root EXCEPT ![5] = right_rotate(root[5])])

\* balance_avl_tree
balance_avl_tree(root, key) ==
  CASE balance_factor(root) \in (0 - 1)..1 -> root
    [] balance_factor(root) = 2 ->
         IF key < root[4][1] THEN right_rotate(root) ELSE left_right_rotate(root)
    [] balance_factor(root) = 0 - 2 ->
         IF key > root[5][1] THEN left_rotate(root) ELSE right_left_rotate(root)

\* insert_value, the Less arm after the recursive call returned r = <<left_node, new_node>>
insert_left(node, key, r) ==
  <<balance_avl_tree(update_height([node EXCEPT ![4] = r[1]]), key), r[2]>>

\* insert_value, the Greater arm after the recursive call returned r
insert_right(node, key, r) ==
  <<balance_avl_tree(update_height([node EXCEPT ![5] = r[1]]), key), r[2]>>

\* insert_value: <<node, new_node>>
RECURSIVE insert_value(_, _, _)
insert_value(root, key, value) ==
  IF root = None THEN <<AVLTreeNodeNew(key, value), TRUE>>
  ELSE IF key = root[1] THEN <<[root EXCEPT ![2] = value], FALSE>>
  ELSE IF key < root[1] THEN insert_left(root, key, insert_value(root[4], key, value))
  ELSE insert_right(root, key, insert_value(root[5], key, value))

\* get_value
RECURSIVE get_value(_, _)
get_value(root, key) ==
  IF root = None THEN None
  ELSE IF key < root[1] THEN get_value(root[4], key)
  ELSE IF key > root[1] THEN get_value(root[5], key)
  ELSE Some(root[2])

\* HashMap<i64, i64> is a function from its keys; HashMap::insert overwrites
hash_insert(kv_hash, k, v) ==
  [x \in DOMAIN kv_hash \cup {k} |-> IF x = k THEN v ELSE kv_hash[x]]

\* HashMap::entry(k).or_insert(v) keeps an existing entry
or_insert(kv_hash, k, v) ==
  [x \in DOMAIN kv_hash \cup {k} |-> IF x \in DOMAIN kv_hash THEN kv_hash[x] ELSE v]

\* scan_tree, the node itself
scan_node(node, start, end, kv_hash) ==
  IF start <= node[1] /\ node[1] <= end THEN hash_insert(kv_hash, node[1], node[2])
  ELSE kv_hash

\* scan_tree
RECURSIVE scan_tree(_, _, _, _)
scan_tree(root, start, end, kv_hash) ==
  IF root = None THEN kv_hash
  ELSE scan_tree(root[5], start, end,
                 scan_node(root, start, end,
                           IF start < root[1] THEN scan_tree(root[4], start, end, kv_hash)
                           ELSE kv_hash))

\* faulty variant of scan_all_tree: the node is emitted before its left subtree
RECURSIVE scan_all_tree_preorder(_)
scan_all_tree_preorder(root) ==
  IF root = None THEN <<>>
  ELSE <<<<root[1], root[2]>>>> \o scan_all_tree_preorder(root[4])
         \o scan_all_tree_preorder(root[5])

\* scan_all_tree
RECURSIVE scan_all_tree(_)
scan_all_tree(root) ==
  IF root = None THEN <<>>
  ELSE Append(scan_all_tree(root[4]), <<root[1], root[2]>>) \o scan_all_tree(root[5])

\* AVLTree::put after insert_value returned r
avl_put_result(t, r) == [root |-> r[1], size |-> IF r[2] THEN t.size + 1 ELSE t.size]

\* faulty variant of put: an overwrite counts as a new record
avl_put_counts_all(t, key, value) ==
  [root |-> insert_value(t.root, key, value)[1], size |-> t.size + 1]

\* AVLTree::put (Memtable::put)
avl_put(t, key, value) == avl_put_result(t, insert_value(t.root, key, value))

\* ------------------------------------------- serde.rs: point get, scan
\* a call that returns value, or that ended in a fatal error (panic # NoPanic)
Ret(value) == [panic |-> NoPanic, value |-> value]
Panicked(msg) == [panic |-> msg, value |-> None]

\* get_sst_names: one name per directory entry, newest index first
get_sst_names(d) ==
  [i \in 1..Cardinality(DOMAIN d) |-> OutputFile(Cardinality(DOMAIN d) - i)]

\* binary_search_array, the loop; indices are 0-based as in the source
RECURSIVE binary_search_array_loop(_, _, _, _)
binary_search_array_loop(kv_arr, key, left, right) ==
  IF left > right THEN Ret(None)
  ELSE IF left + (right - left) \div 2 >= Len(kv_arr)
  THEN Panicked("index out of bounds")
  ELSE IF kv_arr[left + (right - left) \div 2 + 1][1] = key
  THEN Ret(Some(kv_arr[left + (right - left) \div 2 + 1][2]))
  ELSE IF kv_arr[left + (right - left) \div 2 + 1][1] > key
  THEN IF left + (right - left) \div 2 = 0
       THEN Panicked("attempt to subtract with overflow")
       ELSE binary_search_array_loop(kv_arr, key, left, left + (right - left) \div 2 - 1)
  ELSE binary_search_array_loop(kv_arr, key, left + (right - left) \div 2 + 1, right)

\* binary_search_array
binary_search_array(kv_arr, key) ==
  IF Len(kv_arr) = 0 THEN Panicked("attempt to subtract with overflow")
  ELSE binary_search_array_loop(kv_arr, key, 0, Len(kv_arr) - 1)

RECURSIVE binary_search_file_loop(_, _, _, _, _)
\* binary_search_file, one iteration, given the page r read at index mid
binary_search_file_page(d, file_path, key, left, right, mid, r) ==
  IF ~r.ok THEN Panicked("Deserializer: file read failed!")
  ELSE IF Len(r.arr) = 0 THEN Panicked("called Option::unwrap() on a None value")
  ELSE IF r.arr[1][1] <= key /\ key <= r.arr[Len(r.arr)][1]
  THEN binary_search_array(r.arr, key)
  ELSE IF r.arr[1][1] > key
  THEN IF mid = 0 THEN Ret(None)
       ELSE binary_search_file_loop(d, file_path, key, left, mid - 1)
  ELSE binary_search_file_loop(d, file_path, key, mid + 1, right)

\* binary_search_file, the loop
binary_search_file_loop(d, file_path, key, left, right) ==
  IF left > right THEN Ret(None)
  ELSE binary_search_file_page(d, file_path, key, left, right, left + (right - left) \div 2,
         deserialize_page(d, file_path, (left + (right - left) \div 2) * PAGE_SIZE))

\* binary_search_file
binary_search_file(d, file_path, total_pages, key) ==
  IF total_pages = 0 THEN Panicked("attempt to subtract with overflow")
  ELSE binary_search_file_loop(d, file_path, key, 0, total_pages - 1)

RECURSIVE get_value_ssts_from(_, _, _, _)
\* get_value_ssts, the loop body after binary_search_file returned r
get_value_ssts_found(d, sst_names, i, key, r) ==
  IF r.panic # NoPanic \/ r.value # None THEN r
  ELSE get_value_ssts_from(d, sst_names, i + 1, key)

\* get_value_ssts, the loop over sst_names from position i
get_value_ssts_from(d, sst_names, i, key) ==
  IF i > Len(sst_names) THEN Ret(None)
  ELSE IF sst_names[i] \notin DOMAIN d THEN Panicked("Metadata call failed!")
  ELSE get_value_ssts_found(d, sst_names, i, key,
         binary_search_file(d, sst_names[i], total_pages_of(d, sst_names[i]), key))

\* get_value_ssts
get_value_ssts(d, key) == get_value_ssts_from(d, get_sst_names(d), 1, key)

\* binary_search_array_start_index, the loop (0-based indices)
RECURSIVE binary_search_array_start_index_loop(_, _, _, _, _)
binary_search_array_start_index_loop(kv_arr, key, left, right, found_arr_idx) ==
  LET mid == left + (right - left) \div 2
  IN  IF left > right THEN found_arr_idx
      ELSE IF kv_arr[mid + 1][1] >= key
      THEN IF mid = left THEN Some(mid)
           ELSE binary_search_array_start_index_loop(kv_arr, key, left, mid - 1, Some(mid))
      ELSE binary_search_array_start_index_loop(kv_arr, key, mid + 1, right, found_arr_idx)

\* binary_search_array_start_index: index of the first entry with key >= `key`
binary_search_array_start_index(kv_arr, key) ==
  IF Len(kv_arr) = 0 THEN Panicked("attempt to subtract with overflow")
  ELSE Ret(binary_search_array_start_index_loop(kv_arr, key, 0, Len(kv_arr) - 1, None))

RECURSIVE binary_search_sst_start_index_loop(_, _, _, _, _, _)
\* binary_search_sst_start_index, one iteration of the page loop, page r read at mid:
\* the value is <<start_page_idx, kv_arr>>
binary_search_sst_start_index_page(d, file_path, start, left, right, mid, r) ==
  IF ~r.ok THEN Panicked("Deserializer: file read failed!")
  ELSE IF Len(r.arr) = 0 THEN Panicked("index out of bounds")
  ELSE IF r.arr[1][1] <= start /\ start <= r.arr[Len(r.arr)][1] THEN Ret(<<Some(mid), r.arr>>)
  ELSE IF start < r.arr[1][1]
  THEN IF mid = 0 THEN Panicked("attempt to subtract with overflow")
       ELSE binary_search_sst_start_index_loop(d, file_path, start, left, mid - 1, r.arr)
  ELSE binary_search_sst_start_index_loop(d, file_path, start, mid + 1, right, r.arr)

\* binary_search_sst_start_index, the page loop
binary_search_sst_start_index_loop(d, file_path, start, left, right, kv_arr) ==
  IF left > right THEN Ret(<<None, kv_arr>>)
  ELSE binary_search_sst_start_index_page(d, file_path, start, left, right,
         left + (right - left) \div 2,
         deserialize_page(d, file_path, (left + (right - left) \div 2) * PAGE_SIZE))

\* binary_search_sst_start_index, "find start_arr_idx" given the page index and
\* the outcome r of binary_search_array_start_index on the last page read
binary_search_sst_start_index_arr(start_page_idx, r) ==
  IF r.panic # NoPanic THEN r ELSE Ret(<<start_page_idx, r.value>>)

\* binary_search_sst_start_index, "case start in sst", r the page loop's outcome
binary_search_sst_start_index_in(start, r) ==
  IF r.panic # NoPanic THEN r
  ELSE binary_search_sst_start_index_arr(r.value[1],
         binary_search_array_start_index(r.value[2], start))

\* binary_search_sst_start_index given the first and the last page of the file
binary_search_sst_start_index_pages(d, file_path, total_pages, start, end, first, last) ==
  IF ~first.ok \/ ~last.ok THEN Panicked("Deserializer: file read failed!")
  ELSE IF Len(first.arr) = 0 THEN Panicked("index out of bounds")
  ELSE IF first.arr[1][1] <= start /\ Len(last.arr) = 0
  THEN Panicked("attempt to subtract with overflow")
  ELSE IF first.arr[1][1] <= start /\ start <= last.arr[Len(last.arr)][1]
  THEN binary_search_sst_start_index_in(start,
         binary_search_sst_start_index_loop(d, file_path, start, 0, total_pages - 1, <<>>))
  ELSE IF start < first.arr[1][1] /\ first.arr[1][1] <= end
  THEN Ret(<<Some(0), Some(0)>>)
  ELSE Ret(<<None, None>>)

\* binary_search_sst_start_index: <<start_page_idx, start_arr_idx>>
binary_search_sst_start_index(d, file_path, total_pages, start, end) ==
  IF total_pages = 0 THEN Panicked("Deserializer: file read failed!")
  ELSE binary_search_sst_start_index_pages(d, file_path, total_pages, start, end,
         deserialize_page(d, file_path, 0),
         deserialize_page(d, file_path, (total_pages - 1) * PAGE_SIZE))

\* the inner loop of scan_file / scan_b_tree_file: <<kv_hash, arr_idx>> when it stops
RECURSIVE scan_page(_, _, _, _)
scan_page(kv_arr, arr_idx, end, kv_hash) ==
  IF arr_idx < Len(kv_arr) /\ kv_arr[arr_idx + 1][1] <= end
  THEN scan_page(kv_arr, arr_idx + 1, end,
                 or_insert(kv_hash, kv_arr[arr_idx + 1][1], kv_arr[arr_idx + 1][2]))
  ELSE <<kv_hash, arr_idx>>

RECURSIVE scan_file(_, _, _, _, _, _, _)
\* scan_file, one iteration of the outer loop, page r read at page_idx
scan_file_page(d, file_path, total_pages, page_idx, arr_idx, end, kv_hash, r) ==
  IF ~r.ok THEN Panicked("Deserializer: file read failed!")
  ELSE scan_file(d, file_path, total_pages, page_idx + 1, 0, end,
                 scan_page(r.arr, arr_idx, end, kv_hash)[1])

\* scan_file: the value is the updated kv_hash
scan_file(d, file_path, total_pages, page_idx, arr_idx, end, kv_hash) ==
  IF page_idx = total_pages THEN Ret(kv_hash)
  ELSE scan_file_page(d, file_path, total_pages, page_idx, arr_idx, end, kv_hash,
                      deserialize_page(d, file_path, page_idx * PAGE_SIZE))

\* (end - start) as usize, for start <= end
num_elements_in_range(start, end) == (end - start) % WordMod

RECURSIVE scan_ssts_from(_, _, _, _, _, _)
\* scan_ssts, the end of the loop body: r is the outcome of scanning sst_names[i]
scan_ssts_next(d, sst_names, i, start, end, r) ==
  IF r.panic # NoPanic THEN r
  ELSE IF Cardinality(DOMAIN r.value) = num_elements_in_range(start, end) THEN r
  ELSE scan_ssts_from(d, sst_names, i + 1, start, end, r.value)

\* scan_ssts, the `if let (Some(page_idx), Some(arr_idx))` on the outcome r of
\* binary_search_sst_start_index
scan_ssts_file(d, file_path, start, end, kv_hash, r) ==
  IF r.panic # NoPanic THEN r
  ELSE IF r.value[1] # None /\ r.value[2] # None
  THEN scan_file(d, file_path, total_pages_of(d, file_path), r.value[1][1], r.value[2][1],
                 end, kv_hash)
  ELSE Ret(kv_hash)

\* scan_ssts, the loop over sst_names from position i
scan_ssts_from(d, sst_names, i, start, end, kv_hash) ==
  IF i > Len(sst_names) THEN Ret(kv_hash)
  ELSE IF sst_names[i] \notin DOMAIN d THEN Panicked("Metadata call failed!")
  ELSE scan_ssts_next(d, sst_names, i, start, end,
         scan_ssts_file(d, sst_names[i], start, end, kv_hash,
           binary_search_sst_start_index(d, sst_names[i], total_pages_of(d, sst_names[i]),
                                         start, end)))

\* scan_ssts
scan_ssts(d, start, end, kv_hash) == scan_ssts_from(d, get_sst_names(d), 1, start, end, kv_hash)

\* ------------------------------------------------------ storage/btree.rs
\* convert_sorted_arr_to_b_tree_arr_and_serialize, "construct internal layer":
\* <<internal_level, next_layer_candidates>>; i and curr_node_idx_in_layer are 0-based
RECURSIVE construct_internal_layer(_, _, _, _, _, _, _)
construct_internal_layer(candidates, i, curr_node_idx_in_layer, keys_per_node, excess_keys, internal_level, next_layer_candidates) ==
  LET n_keys == 1 + keys_per_node + (IF curr_node_idx_in_layer < excess_keys THEN 1 ELSE 0)
  IN  IF i >= Len(candidates) THEN <<internal_level, next_layer_candidates>>
      ELSE construct_internal_layer(
             candidates,
             IF i + n_keys < Len(candidates) THEN i + n_keys + 1 ELSE i + n_keys,
             curr_node_idx_in_layer + 1, keys_per_node, excess_keys,
             Append(internal_level, SubSeq(candidates, i + 1, i + n_keys)),
             IF i + n_keys < Len(candidates)
             THEN Append(next_layer_candidates, candidates[i + n_keys + 1])
             ELSE next_layer_candidates)

RECURSIVE construct_internal_layers(_, _, _)
\* the end of one pass of "construct internal layers": layer = <<internal_level, candidates>>
push_internal_layer(internal_levels, layer) ==
  construct_internal_layers(layer[2], Len(layer[1]), Append(internal_levels, layer[1]))

\* convert_sorted_arr_to_b_tree_arr_and_serialize, "construct internal layers"
construct_internal_layers(candidates, num_ptrs, internal_levels) ==
  LET curr_level_num_nodes == (num_ptrs + ENTRIES - 1) \div ENTRIES
  IN  IF candidates = <<>> THEN internal_levels
      ELSE push_internal_layer(internal_levels,
             construct_internal_layer(candidates, 0, 0,
               (num_ptrs - 2 * curr_level_num_nodes) \div curr_level_num_nodes,
               (num_ptrs - 2 * curr_level_num_nodes) % curr_level_num_nodes,
               <<>>, <<>>))

\* faulty variant of node_page_arr: the entry that repeats the first key is left out
node_page_arr_single(node, num_offset_pages) ==
  [k \in 1..Len(node) |-> <<node[k], num_offset_pages + k - 1>>]

\* the page of one internal node: its first key twice, then one entry per key,
\* each with the page number of a child
node_page_arr(node, num_offset_pages) ==
  <<<<node[1], num_offset_pages>>>> \o
    [k \in 1..Len(node) |-> <<node[k], num_offset_pages + k>>]

\* "construct internal pages arr", the nodes of one level from the n-th on
RECURSIVE serialize_internal_level(_, _, _, _, _)
serialize_internal_level(d, file_path, internal_level, n, num_offset_pages) ==
  IF n > Len(internal_level) THEN d
  ELSE serialize_internal_level(
         serialize_kv_to_file(d, file_path, node_page_arr(internal_level[n], num_offset_pages)),
         file_path, internal_level, n + 1, num_offset_pages + Len(internal_level[n]) + 1)

\* "construct internal pages arr": the levels in reverse, from internal_levels[l] down
RECURSIVE serialize_internal_levels(_, _, _, _, _)
serialize_internal_levels(d, file_path, internal_levels, l, pages_in_front) ==
  IF l = 0 THEN d
  ELSE serialize_internal_levels(
         serialize_internal_level(d, file_path, internal_levels[l], 1,
                                  pages_in_front + Len(internal_levels[l])),
         file_path, internal_levels, l - 1, pages_in_front + Len(internal_levels[l]))

\* the first key of every leaf page but the first
first_candidates(leaf_lst) ==
  [i \in 1..(((Len(leaf_lst) + ENTRIES - 1) \div ENTRIES) - 1) |-> leaf_lst[i * ENTRIES + 1][1]]

\* convert_sorted_arr_to_b_tree_arr_and_serialize given internal_levels
serialize_b_tree(d, file_path, leaf_lst, internal_levels) ==
  serialize_kv_to_file(
    serialize_internal_levels(d, file_path, internal_levels, Len(internal_levels), 0),
    file_path, leaf_lst)

\* convert_sorted_arr_to_b_tree_arr_and_serialize
convert_sorted_arr_to_b_tree_arr_and_serialize(d, file_path, leaf_lst) ==
  serialize_b_tree(d, file_path, leaf_lst,
    construct_internal_layers(first_candidates(leaf_lst),
                              (Len(leaf_lst) + ENTRIES - 1) \div ENTRIES, <<>>))

\* binary_search_internal_se_key, the loop (0-based indices)
RECURSIVE binary_search_internal_se_key_loop(_, _, _, _, _)
binary_search_internal_se_key_loop(arr, key, left, right, found_arr_idx) ==
  LET mid == left + (right - left) \div 2
  IN  IF left > right THEN found_arr_idx
      ELSE IF arr[mid + 1][1] = key THEN Some(mid)
      ELSE IF arr[mid + 1][1] < key
      THEN IF mid = left THEN Some(mid)
           ELSE binary_search_internal_se_key_loop(arr, key, mid + 1, right, Some(mid))
      ELSE binary_search_internal_se_key_loop(arr, key, left, mid - 1, found_arr_idx)

\* binary_search_internal_se_key
binary_search_internal_se_key(arr, key) ==
  binary_search_internal_se_key_loop(arr, key, 1, Len(arr) - 1, None)

\* .unwrap_or(0)
unwrap_or(opt, default) == IF opt = None THEN default ELSE opt[1]

\* arr.len() > 1 && arr[0].0 == arr[1].0
is_internal_page(arr) == Len(arr) > 1 /\ arr[1][1] = arr[2][1]

\* a pool-threading call: the pool after the call (its panic field set when the
\* call ended in a fatal error) and the value returned
PoolRet(p, value) == [pool |-> p, value |-> value]

RECURSIVE search_b_tree_sst_loop(_, _, _, _, _)
\* search_b_tree_sst, "case internal node page"
search_b_tree_sst_internal(p, d, filename, key, arr, arr_idx) ==
  IF arr[arr_idx + 1][2] < 0
  THEN PoolRet(Fail(p, "assertion failed: arr[arr_idx].1 >= 0"), None)
  ELSE search_b_tree_sst_loop(p, d, filename, key, arr[arr_idx + 1][2])

\* search_b_tree_sst, "case leaf page", r the outcome of binary_search_array_start_index
search_b_tree_sst_leaf(p, arr, key, r) ==
  IF r.panic # NoPanic THEN PoolRet(Fail(p, r.panic), None)
  ELSE IF r.value # None /\ arr[r.value[1] + 1][1] = key
  THEN PoolRet(p, Some(arr[r.value[1] + 1][2]))
  ELSE PoolRet(p, None)

\* search_b_tree_sst, the loop body after find_page returned r
search_b_tree_sst_page(d, filename, key, r) ==
  IF r.pool.panic # NoPanic THEN PoolRet(r.pool, None)
  ELSE IF is_internal_page(r.page)
  THEN search_b_tree_sst_internal(r.pool, d, filename, key, r.page,
         unwrap_or(binary_search_internal_se_key(r.page, key), 0))
  ELSE search_b_tree_sst_leaf(r.pool, r.page, key,
         binary_search_array_start_index(r.page, key))

\* search_b_tree_sst, the loop
search_b_tree_sst_loop(p, d, filename, key, page_idx) ==
  search_b_tree_sst_page(d, filename, key, find_page(p, d, filename, page_idx * PAGE_SIZE))

\* search_b_tree_sst
search_b_tree_sst(p, d, filename, key) == search_b_tree_sst_loop(p, d, filename, key, 0)

RECURSIVE get_b_tree_ssts_from(_, _, _, _, _)
\* get_b_tree_ssts, the loop body after search_b_tree_sst returned r
get_b_tree_ssts_found(d, sst_names, i, key, r) ==
  IF r.pool.panic # NoPanic \/ r.value # None THEN r
  ELSE get_b_tree_ssts_from(r.pool, d, sst_names, i + 1, key)

\* get_b_tree_ssts, the loop over sst_names from position i
get_b_tree_ssts_from(p, d, sst_names, i, key) ==
  IF i > Len(sst_names) THEN PoolRet(p, None)
  ELSE get_b_tree_ssts_found(d, sst_names, i, key,
                             search_b_tree_sst(p, d, sst_names[i], key))

\* get_b_tree_ssts
get_b_tree_ssts(p, d, key) == get_b_tree_ssts_from(p, d, get_sst_names(d), 1, key)

RECURSIVE scan_b_tree_file(_, _, _, _, _, _, _, _)
\* scan_b_tree_file, after the inner loop stopped at sp = <<kv_hash, i>>
scan_b_tree_file_next(p, d, file_path, total_pages, local_page_idx, end, kv_arr, sp) ==
  IF sp[2] # Len(kv_arr) THEN PoolRet(p, sp[1])
  ELSE scan_b_tree_file(p, d, file_path, total_pages, local_page_idx + 1, 0, end, sp[1])

\* scan_b_tree_file, the loop body after find_page returned r
scan_b_tree_file_page(d, file_path, total_pages, local_page_idx, local_arr_idx, end, kv_hash, r) ==
  IF r.pool.panic # NoPanic THEN PoolRet(r.pool, kv_hash)
  ELSE scan_b_tree_file_next(r.pool, d, file_path, total_pages, local_page_idx, end, r.page,
                             scan_page(r.page, local_arr_idx, end, kv_hash))

\* scan_b_tree_file: the value is the updated kv_hash
scan_b_tree_file(p, d, file_path, total_pages, page_idx, arr_idx, end, kv_hash) ==
  IF page_idx >= total_pages THEN PoolRet(p, kv_hash)
  ELSE scan_b_tree_file_page(d, file_path, total_pages, page_idx, arr_idx, end, kv_hash,
                             find_page(p, d, file_path, page_idx * PAGE_SIZE))

RECURSIVE scan_b_tree_sst_loop(_, _, _, _, _, _, _, _)
\* scan_b_tree_sst, "case internal node page"
scan_b_tree_sst_internal(p, d, file_path, start, end, kv_hash, total_pages, arr, arr_idx) ==
  IF arr[arr_idx + 1][2] < 0
  THEN PoolRet(Fail(p, "assertion failed: arr[arr_idx].1 >= 0"), kv_hash)
  ELSE scan_b_tree_sst_loop(p, d, file_path, start, end, kv_hash, total_pages,
                            arr[arr_idx + 1][2])

\* scan_b_tree_sst, "case leaf page", r the outcome of binary_search_array_start_index
scan_b_tree_sst_leaf(p, d, file_path, end, kv_hash, total_pages, start_page_idx, r) ==
  IF r.panic # NoPanic THEN PoolRet(Fail(p, r.panic), kv_hash)
  ELSE IF r.value # None
  THEN scan_b_tree_file(p, d, file_path, total_pages, start_page_idx, r.value[1], end, kv_hash)
  ELSE PoolRet(p, kv_hash)

\* scan_b_tree_sst, the loop body after find_page returned r
scan_b_tree_sst_page(d, file_path, start, end, kv_hash, total_pages, page_idx, r) ==
  IF r.pool.panic # NoPanic THEN PoolRet(r.pool, kv_hash)
  ELSE IF is_internal_page(r.page)
  THEN scan_b_tree_sst_internal(r.pool, d, file_path, start, end, kv_hash, total_pages, r.page,
         unwrap_or(binary_search_internal_se_key(r.page, start), 0))
  ELSE scan_b_tree_sst_leaf(r.pool, d, file_path, end, kv_hash, total_pages, page_idx,
         binary_search_array_start_index(r.page, start))

\* scan_b_tree_sst, the loop
scan_b_tree_sst_loop(p, d, file_path, start, end, kv_hash, total_pages, page_idx) ==
  scan_b_tree_sst_page(d, file_path, start, end, kv_hash, total_pages, page_idx,
                       find_page(p, d, file_path, page_idx * PAGE_SIZE))

\* scan_b_tree_sst
scan_b_tree_sst(p, d, file_path, start, end, kv_hash, total_pages) ==
  scan_b_tree_sst_loop(p, d, file_path, start, end, kv_hash, total_pages, 0)

RECURSIVE scan_b_tree_ssts_from(_, _, _, _, _, _, _)
\* scan_b_tree_ssts, the end of the loop body: r is the outcome of scan_b_tree_sst
scan_b_tree_ssts_next(d, sst_names, i, start, end, r) ==
  IF r.pool.panic # NoPanic THEN r
  ELSE IF Cardinality(DOMAIN r.value) = num_elements_in_range(start, end) THEN r
  ELSE scan_b_tree_ssts_from(r.pool, d, sst_names, i + 1, start, end, r.value)

\* scan_b_tree_ssts, the loop over sst_names from position i
scan_b_tree_ssts_from(p, d, sst_names, i, start, end, kv_hash) ==
  IF i > Len(sst_names) THEN PoolRet(p, kv_hash)
  ELSE IF sst_names[i] \notin DOMAIN d THEN PoolRet(Fail(p, "Metadata call failed!"), kv_hash)
  ELSE scan_b_tree_ssts_next(d, sst_names, i, start, end,
         scan_b_tree_sst(p, d, sst_names[i], start, end, kv_hash,
                         total_pages_of(d, sst_names[i])))

\* scan_b_tree_ssts
scan_b_tree_ssts(p, d, start, end, kv_hash) ==
  scan_b_tree_ssts_from(p, d, get_sst_names(d), 1, start, end, kv_hash)

\* ------------------------------------------------- storage/part3btree.rs
\* part3_create_b_tree_internal_file, "first internal nodes layer": the first key
\* of leaf pages i..total_pages-1, or a fatal error on a page that decodes empty
RECURSIVE part3_candidates(_, _, _, _, _)
part3_candidates_push(d, leaf_file_path, total_pages, i, candidates, r) ==
  IF ~r.ok THEN Panicked("Deserializer: file read failed!")
  ELSE IF Len(r.arr) = 0 THEN Panicked("index out of bounds")
  ELSE part3_candidates(d, leaf_file_path, total_pages, i + 1, Append(candidates, r.arr[1][1]))

part3_candidates(d, leaf_file_path, total_pages, i, candidates) ==
  IF i >= total_pages THEN Ret(candidates)
  ELSE part3_candidates_push(d, leaf_file_path, total_pages, i, candidates,
                             deserialize_page(d, leaf_file_path, i * PAGE_SIZE))

\* part3_create_b_tree_internal_file given internal_levels
part3_serialize_internal(d, internal_file_path, internal_levels) ==
  serialize_internal_levels(d, internal_file_path, internal_levels, Len(internal_levels), 0)

\* part3_create_b_tree_internal_file given the outcome r of collecting the candidates
part3_create_from_candidates(d, internal_file_path, total_pages, r) ==
  IF r.panic # NoPanic THEN [panic |-> r.panic, disk |-> d]
  ELSE [panic |-> NoPanic,
        disk |-> part3_serialize_internal(d, internal_file_path,
                   construct_internal_layers(r.value, total_pages, <<>>))]

\* part3_create_b_tree_internal_file: [panic, disk]; no file is created when the
\* leaf file has a single page
part3_create_b_tree_internal_file(d, leaf_file_path, internal_file_path) ==
  IF leaf_file_path \notin DOMAIN d THEN [panic |-> "Metadata call failed!", disk |-> d]
  ELSE part3_create_from_candidates(d, internal_file_path, total_pages_of(d, leaf_file_path),
         part3_candidates(d, leaf_file_path, total_pages_of(d, leaf_file_path), 1, <<>>))

\* part3_search_b_tree_sst, "leaf file search" after find_page returned r
part3_search_leaf(key, r) ==
  IF r.pool.panic # NoPanic THEN PoolRet(r.pool, None)
  ELSE search_b_tree_sst_leaf(r.pool, r.page, key, binary_search_array_start_index(r.page, key))

RECURSIVE part3_search_internal(_, _, _, _, _, _, _)
\* part3_search_b_tree_sst, "internal file search", the loop body after find_page returned r
part3_search_internal_page(d, leaf_filename, internal_filename, key, internal_total_pages, r, arr_idx) ==
  IF r.pool.panic # NoPanic THEN PoolRet(r.pool, None)
  ELSE IF ~is_internal_page(r.page)
  THEN PoolRet(Fail(r.pool, "assertion failed: arr.len() > 1 && arr[0].0 == arr[1].0"), None)
  ELSE IF r.page[arr_idx + 1][2] < 0
  THEN PoolRet(Fail(r.pool, "assertion failed: arr[arr_idx].1 >= 0"), None)
  ELSE part3_search_internal(r.pool, d, leaf_filename, internal_filename, key,
                             internal_total_pages, r.page[arr_idx + 1][2])

\* the index binary_search_internal_se_key(..).unwrap_or(0) picks in page r
se_key_idx(r, key) ==
  IF r.pool.panic # NoPanic \/ ~is_internal_page(r.page) THEN 0
  ELSE unwrap_or(binary_search_internal_se_key(r.page, key), 0)

part3_search_internal_found(d, leaf_filename, internal_filename, key, internal_total_pages, r) ==
  part3_search_internal_page(d, leaf_filename, internal_filename, key, internal_total_pages,
                             r, se_key_idx(r, key))

\* part3_search_b_tree_sst, the descent from page_idx and the leaf search
part3_search_internal(p, d, leaf_filename, internal_filename, key, internal_total_pages, page_idx) ==
  IF page_idx >= internal_total_pages
  THEN part3_search_leaf(key,
         find_page(p, d, leaf_filename, (page_idx - internal_total_pages) * PAGE_SIZE))
  ELSE part3_search_internal_found(d, leaf_filename, internal_filename, key,
         internal_total_pages, find_page(p, d, internal_filename, page_idx * PAGE_SIZE))

\* part3_search_b_tree_sst
part3_search_b_tree_sst(p, d, leaf_filename, internal_filename, key) ==
  IF internal_filename \notin DOMAIN d THEN PoolRet(Fail(p, "Metadata call failed!"), None)
  ELSE part3_search_internal(p, d, leaf_filename, internal_filename, key,
                             total_pages_of(d, internal_filename), 0)

\* part3_scan_b_tree_sst, "leaf file search": r is find_page's result for the start
\* page, sr the outcome of binary_search_array_start_index on it
part3_scan_leaf_from(d, leaf_filename, key2, kv_hash, start_page_idx, r, sr) ==
  IF sr.panic # NoPanic THEN PoolRet(Fail(r.pool, sr.panic), kv_hash)
  ELSE IF sr.value # None
  THEN scan_b_tree_file(r.pool, d, leaf_filename, total_pages_of(d, leaf_filename),
                        start_page_idx, sr.value[1], key2, kv_hash)
  ELSE PoolRet(r.pool, kv_hash)

part3_scan_leaf(d, leaf_filename, key1, key2, kv_hash, start_page_idx, r) ==
  IF r.pool.panic # NoPanic THEN PoolRet(r.pool, kv_hash)
  ELSE part3_scan_leaf_from(d, leaf_filename, key2, kv_hash, start_page_idx, r,
                            binary_search_array_start_index(r.page, key1))

RECURSIVE part3_scan_internal(_, _, _, _, _, _, _, _, _)
\* part3_scan_b_tree_sst, "internal file search", the loop body after find_page returned r
part3_scan_internal_page(d, leaf_filename, internal_filename, key1, key2, kv_hash, internal_total_pages, r, arr_idx) ==
  IF r.pool.panic # NoPanic THEN PoolRet(r.pool, kv_hash)
  ELSE IF ~is_internal_page(r.page)
  THEN PoolRet(Fail(r.pool, "assertion failed: arr.len() > 1 && arr[0].0 == arr[1].0"), kv_hash)
  ELSE IF r.page[arr_idx + 1][2] < 0
  THEN PoolRet(Fail(r.pool, "assertion failed: arr[arr_idx].1 >= 0"), kv_hash)
  ELSE part3_scan_internal(r.pool, d, leaf_filename, internal_filename, key1, key2, kv_hash,
                           internal_total_pages, r.page[arr_idx + 1][2])

part3_scan_internal_found(d, leaf_filename, internal_filename, key1, key2, kv_hash, internal_total_pages, r) ==
  part3_scan_internal_page(d, leaf_filename, internal_filename, key1, key2, kv_hash,
                           internal_total_pages, r, se_key_idx(r, key1))

\* part3_scan_b_tree_sst, the descent from page_idx and the leaf scan
part3_scan_internal(p, d, leaf_filename, internal_filename, key1, key2, kv_hash, internal_total_pages, page_idx) ==
  IF page_idx >= internal_total_pages
  THEN IF leaf_filename \notin DOMAIN d
       THEN PoolRet(Fail(p, "Metadata call failed!"), kv_hash)
       ELSE part3_scan_leaf(d, leaf_filename, key1, key2, kv_hash,
              page_idx - internal_total_pages,
              find_page(p, d, leaf_filename, (page_idx - internal_total_pages) * PAGE_SIZE))
  ELSE part3_scan_internal_found(d, leaf_filename, internal_filename, key1, key2, kv_hash,
         internal_total_pages, find_page(p, d, internal_filename, page_idx * PAGE_SIZE))

\* part3_scan_b_tree_sst
part3_scan_b_tree_sst(p, d, leaf_filename, internal_filename, key1, key2, kv_hash) ==
  IF internal_filename \notin DOMAIN d THEN PoolRet(Fail(p, "Metadata call failed!"), kv_hash)
  ELSE part3_scan_internal(p, d, leaf_filename, internal_filename, key1, key2, kv_hash,
                           total_pages_of(d, internal_filename), 0)

\* ---------------------------------------------------------------- filter.rs
\* stand-in for XxHash64::with_seed(SEEDS[s]) of a key: a fixed function of seed and key
SEEDS == 1..2
xx_hash64(seed, key) == (2 * seed + 1) * to_be_bytes(key) + seed

\* Bitmap::new: size bits, none set (bits is the set of positions that are set)
BitmapNew(size) == [size |-> size, bits |-> {}]

\* faulty variant of insert_key: only the bit of the first seed is set
insert_key_first_seed(bitmap, key) ==
  [bitmap EXCEPT !.bits = @ \cup {xx_hash64(1, key) % bitmap.size}]

\* BloomFilter::insert_key
insert_key(bitmap, key) ==
  [bitmap EXCEPT !.bits = @ \cup {xx_hash64(seed, key) % bitmap.size : seed \in SEEDS}]

\* BloomFilter::check_key
check_key(bitmap, key) ==
  \A seed \in SEEDS : (xx_hash64(seed, key) % bitmap.size) \in bitmap.bits

\* the `for i in contents { b.insert_key(i.0) }` loop of LSMTree::flush
RECURSIVE insert_keys(_, _, _)
insert_keys(bitmap, contents, i) ==
  IF i > Len(contents) THEN bitmap
  ELSE insert_keys(insert_key(bitmap, contents[i][1]), contents, i + 1)

\* -------------------------------------------------------- storage/lsm.rs
\* The LSMTree object t is [pool, disk, tree_size, filters, memtable_size] (disk is
\* the directory it owns); a fatal error is recorded in t.pool.panic.
\* The merge state m is [pool, disk, first_buffer, second_buffer, first_page_idx,
\* second_page_idx, output_buffer, new_filter, brk]; c names the files of the merge.

\* flush_output_buffer: append the padded image of output_buffer, clear it
flush_output_buffer(m, c) ==
  [m EXCEPT !.disk = [@ EXCEPT ![c.output_file_name] = @ \o encode_kv(m.output_buffer)],
            !.output_buffer = <<>>]

\* "append to output file when buffer is full"
flush_when_full(m, c) ==
  IF Len(m.output_buffer) = ENTRIES THEN flush_output_buffer(m, c) ELSE m

\* first_buffer = self.pool.find_page(&first_sst, ..) with find_page's result r
load_first(m, r) == [m EXCEPT !.pool = r.pool, !.first_buffer = r.page]
load_second(m, r) == [m EXCEPT !.pool = r.pool, !.second_buffer = r.page]

\* `if first_buffer.is_empty() { .. }`: next page of the first run, or break
refill_first(m, c) ==
  IF m.first_buffer # <<>> THEN m
  ELSE IF m.first_page_idx + 1 = c.first_page_count
  THEN [m EXCEPT !.first_page_idx = @ + 1, !.brk = TRUE]
  ELSE load_first([m EXCEPT !.first_page_idx = @ + 1],
                  find_page(m.pool, m.disk, c.first_sst, (m.first_page_idx + 1) * PAGE_SIZE))

\* `if second_buffer.is_empty() { .. }`
refill_second(m, c) ==
  IF m.second_buffer # <<>> THEN m
  ELSE IF m.second_page_idx + 1 = c.second_page_count
  THEN [m EXCEPT !.second_page_idx = @ + 1, !.brk = TRUE]
  ELSE load_second([m EXCEPT !.second_page_idx = @ + 1],
                   find_page(m.pool, m.disk, c.second_sst, (m.second_page_idx + 1) * PAGE_SIZE))

\* faulty variant of merge_match: on a tie the record of the first (older) run is kept
merge_match_oldest(m) ==
  IF m.first_buffer[1][1] <= m.second_buffer[1][1]
  THEN [m EXCEPT !.output_buffer = Append(@, m.first_buffer[1]),
                 !.first_buffer = Tail(@),
                 !.second_buffer = IF m.first_buffer[1][1] = m.second_buffer[1][1]
                                   THEN Tail(@) ELSE @,
                 !.new_filter = insert_key(@, m.first_buffer[1][1])]
  ELSE [m EXCEPT !.output_buffer = Append(@, m.second_buffer[1]),
                 !.second_buffer = Tail(@),
                 !.new_filter = insert_key(@, m.second_buffer[1][1])]

\* the match on first_element.0.cmp(&second_element.0): the newest (second) wins a tie
merge_match(m) ==
  IF m.first_buffer[1][1] < m.second_buffer[1][1]
  THEN [m EXCEPT !.output_buffer = Append(@, m.first_buffer[1]),
                 !.first_buffer = Tail(@),
                 !.new_filter = insert_key(@, m.first_buffer[1][1])]
  ELSE IF m.first_buffer[1][1] > m.second_buffer[1][1]
  THEN [m EXCEPT !.output_buffer = Append(@, m.second_buffer[1]),
                 !.second_buffer = Tail(@),
                 !.new_filter = insert_key(@, m.second_buffer[1][1])]
  ELSE [m EXCEPT !.output_buffer = Append(@, m.second_buffer[1]),
                 !.first_buffer = Tail(@), !.second_buffer = Tail(@),
                 !.new_filter = insert_key(@, m.second_buffer[1][1])]

RECURSIVE merge_loop(_, _)
\* "merge SSTs together", after both refills
merge_elements(m, c) ==
  IF m.brk \/ m.pool.panic # NoPanic THEN m
  ELSE IF m.first_buffer = <<>> \/ m.second_buffer = <<>>
  THEN [m EXCEPT !.pool = Fail(@, "index out of bounds")]
  ELSE merge_loop(flush_when_full(merge_match(m), c), c)

\* "merge SSTs together", after the refill of first_buffer
merge_second(m, c) ==
  IF m.brk \/ m.pool.panic # NoPanic THEN m ELSE merge_elements(refill_second(m, c), c)

\* "merge SSTs together", the loop
merge_loop(m, c) == merge_second(refill_first(m, c), c)

RECURSIVE remaining_first(_, _)
\* "write remaining kv pairs", first run, after the refill
remaining_first_push(m, c) ==
  IF m.brk \/ m.pool.panic # NoPanic THEN m
  ELSE IF m.first_buffer = <<>> THEN [m EXCEPT !.pool = Fail(@, "index out of bounds")]
  ELSE remaining_first(
         flush_when_full([m EXCEPT !.output_buffer = Append(@, m.first_buffer[1]),
                                   !.new_filter = insert_key(@, m.first_buffer[1][1]),
                                   !.first_buffer = Tail(@)], c), c)

\* `while first_page_idx < first_page_count { .. }`
remaining_first(m, c) ==
  IF m.pool.panic # NoPanic \/ m.first_page_idx >= c.first_page_count THEN m
  ELSE remaining_first_push(refill_first(m, c), c)

RECURSIVE remaining_second(_, _)
\* "write remaining kv pairs", second run, after the refill
remaining_second_push(m, c) ==
  IF m.brk \/ m.pool.panic # NoPanic THEN m
  ELSE IF m.second_buffer = <<>> THEN [m EXCEPT !.pool = Fail(@, "index out of bounds")]
  ELSE remaining_second(
         flush_when_full([m EXCEPT !.output_buffer = Append(@, m.second_buffer[1]),
                                   !.new_filter = insert_key(@, m.second_buffer[1][1]),
                                   !.second_buffer = Tail(@)], c), c)

\* `while second_page_idx < second_page_count { .. }`
remaining_second(m, c) ==
  IF m.pool.panic # NoPanic \/ m.second_page_idx >= c.second_page_count THEN m
  ELSE remaining_second_push(refill_second(m, c), c)

\* `if !output_buffer.is_empty() { flush_output_buffer(..) }`
flush_rest(m, c) ==
  IF m.pool.panic # NoPanic \/ m.output_buffer = <<>> THEN m ELSE flush_output_buffer(m, c)

\* a `break` leaves the loop it is in only
no_break(m) == [m EXCEPT !.brk = FALSE]

\* merge_ssts from "merge SSTs together" to the last flush_output_buffer
merge_runs(m, c) ==
  flush_rest(remaining_second(no_break(remaining_first(no_break(merge_loop(m, c)), c)), c), c)

\* remove_file(name).unwrap() for names[i..], in order: [panic, disk]
RECURSIVE remove_files(_, _, _)
remove_files(d, names, i) ==
  IF i > Len(names) THEN [panic |-> NoPanic, disk |-> d]
  ELSE IF names[i] \notin DOMAIN d
  THEN [panic |-> "called Result::unwrap() on an Err value", disk |-> d]
  ELSE remove_files([f \in DOMAIN d \ {names[i]} |-> d[f]], names, i + 1)

\* faulty variant of merge_finish: the filter of the merged level is not cleared
merge_finish_keep(t, level, new_filter, rm) ==
  IF rm.panic # NoPanic THEN [t EXCEPT !.disk = rm.disk, !.pool = Fail(@, rm.panic)]
  ELSE [t EXCEPT !.disk = rm.disk,
                 !.filters = [@ EXCEPT ![level + 1] = Some(new_filter)]]

\* merge_ssts, the end: the four inputs are removed (rm is remove_files' outcome)
\* and the filters of the two levels are replaced
merge_finish(t, level, new_filter, rm) ==
  IF rm.panic # NoPanic THEN [t EXCEPT !.disk = rm.disk, !.pool = Fail(@, rm.panic)]
  ELSE [t EXCEPT !.disk = rm.disk,
                 !.filters = [@ EXCEPT ![level] = None, ![level + 1] = Some(new_filter)]]

\* merge_ssts after part3_create_b_tree_internal_file returned cr
merge_remove(t, level, m, c, cr) ==
  IF cr.panic # NoPanic THEN [t EXCEPT !.disk = cr.disk, !.pool = Fail(m.pool, cr.panic)]
  ELSE merge_finish([t EXCEPT !.pool = m.pool], level, m.new_filter,
         remove_files(cr.disk,
                      <<c.first_sst, c.second_sst, c.first_internal, c.second_internal>>, 1))

\* merge_ssts after the merged run was written (m is merge_runs' outcome)
merge_index(t, level, m, c) ==
  IF m.pool.panic # NoPanic THEN [t EXCEPT !.disk = m.disk, !.pool = m.pool]
  ELSE merge_remove(t, level, m, c,
         part3_create_b_tree_internal_file(m.disk, c.output_file_name, c.output_file_internal))

\* merge_ssts after the first page of the second run was read (r1, r2 are the
\* results of the two find_page calls): the output file is opened for appending
merge_open(t, level, c, r1, r2) ==
  IF r2.pool.panic # NoPanic THEN [t EXCEPT !.pool = r2.pool]
  ELSE merge_index(t, level,
         merge_runs([pool |-> r2.pool,
                     disk |-> [f \in DOMAIN t.disk \cup {c.output_file_name} |->
                                 IF f \in DOMAIN t.disk THEN t.disk[f] ELSE <<>>],
                     first_buffer |-> r1.page, second_buffer |-> r2.page,
                     first_page_idx |-> 0, second_page_idx |-> 0,
                     output_buffer |-> <<>>,
                     new_filter |-> BitmapNew((2 ^ level) * t.memtable_size * 10),
                     brk |-> FALSE], c), c)

\* merge_ssts after the first page of the first run was read
merge_read_second(t, level, c, r1) ==
  IF r1.pool.panic # NoPanic THEN [t EXCEPT !.pool = r1.pool]
  ELSE merge_open(t, level, c, r1, find_page(r1.pool, t.disk, c.second_sst, 0))

\* merge_ssts given the names c of the files involved
merge_files(t, level, c) ==
  IF c.first_sst \notin DOMAIN t.disk THEN [t EXCEPT !.pool = Fail(@, "SST1 not found")]
  ELSE IF c.second_sst \notin DOMAIN t.disk THEN [t EXCEPT !.pool = Fail(@, "SST2 not found")]
  ELSE merge_read_second(t, level, c, find_page(t.pool, t.disk, c.first_sst, 0))

\* LSMTree::merge_ssts
merge_ssts(t, level) ==
  merge_files(t, level,
    [first_sst |-> LeafFile(level, t.tree_size - 2 ^ (level - 1)),
     first_internal |-> InternalFile(level, t.tree_size - 2 ^ (level - 1)),
     second_sst |-> LeafFile(level, t.tree_size),
     second_internal |-> InternalFile(level, t.tree_size),
     first_page_count |-> total_pages_of(t.disk, LeafFile(level, t.tree_size - 2 ^ (level - 1))),
     second_page_count |-> total_pages_of(t.disk, LeafFile(level, t.tree_size)),
     output_file_name |-> LeafFile(level + 1, t.tree_size),
     output_file_internal |-> InternalFile(level + 1, t.tree_size)])

\* u32::ilog2
RECURSIVE ilog2(_)
ilog2(n) == IF n < 2 THEN 0 ELSE 1 + ilog2(n \div 2)

\* self.tree_size & (1 << (i - 1)) == 0
bit_clear(tree_size, i) == (tree_size \div (2 ^ (i - 1))) % 2 = 0

\* (self.tree_size / 2_u32.pow(i - 1)) * 2_u32.pow(i - 1)
run_of_level(tree_size, i) == (tree_size \div (2 ^ (i - 1))) * (2 ^ (i - 1))

\* !self.filters[0].as_ref().map_or(true, |a| a.check_key(key))
filter_rejects(t, key) ==
  IF t.filters[0] = None THEN FALSE ELSE ~check_key(t.filters[0][1], key)

RECURSIVE lsm_get_from(_, _, _)
\* LSMTree::get, the loop body after part3_search_b_tree_sst returned r
lsm_get_found(t, i, key, r) ==
  IF r.pool.panic # NoPanic \/ r.value # None THEN r
  ELSE lsm_get_from([t EXCEPT !.pool = r.pool], i + 1, key)

\* LSMTree::get, the loop over the levels from i
lsm_get_from(t, i, key) ==
  IF i > ilog2(t.tree_size) + 1 THEN PoolRet(t.pool, None)
  ELSE IF bit_clear(t.tree_size, i) \/ filter_rejects(t, key) THEN lsm_get_from(t, i + 1, key)
  ELSE lsm_get_found(t, i, key,
         part3_search_b_tree_sst(t.pool, t.disk, LeafFile(i, run_of_level(t.tree_size, i)),
                                 InternalFile(i, run_of_level(t.tree_size, i)), key))

\* LSMTree::get
lsm_get(t, key) == IF t.tree_size = 0 THEN PoolRet(t.pool, None) ELSE lsm_get_from(t, 1, key)

RECURSIVE lsm_scan_from(_, _, _, _, _)
\* LSMTree::scan, the loop body after part3_scan_b_tree_sst returned r
lsm_scan_next(t, i, start, end, r) ==
  IF r.pool.panic # NoPanic THEN r
  ELSE lsm_scan_from([t EXCEPT !.pool = r.pool], i + 1, start, end, r.value)

\* LSMTree::scan, the loop over the levels from i
lsm_scan_from(t, i, start, end, hash) ==
  IF i > ilog2(t.tree_size) + 1 THEN PoolRet(t.pool, hash)
  ELSE IF bit_clear(t.tree_size, i) THEN lsm_scan_from(t, i + 1, start, end, hash)
  ELSE lsm_scan_next(t, i, start, end,
         part3_scan_b_tree_sst(t.pool, t.disk, LeafFile(i, run_of_level(t.tree_size, i)),
                               InternalFile(i, run_of_level(t.tree_size, i)),
                               start, end, hash))

\* LSMTree::scan
lsm_scan(t, start, end, hash) ==
  IF t.tree_size = 0 THEN PoolRet(t.pool, hash) ELSE lsm_scan_from(t, 1, start, end, hash)

\* faulty variant of merge_if_necessary: the cascade stops after one merge
merge_if_necessary_once(t, level) ==
  IF t.pool.panic # NoPanic \/ ~bit_clear(t.tree_size, level) THEN t
  ELSE merge_ssts(t, level)

\* faulty variant of merge_if_necessary: runs are never merged
merge_if_necessary_never(t, level) == t

\* LSMTree::flush, "merge ssts if necessary"
RECURSIVE merge_if_necessary(_, _)
merge_if_necessary(t, level) ==
  IF t.pool.panic # NoPanic \/ ~bit_clear(t.tree_size, level) THEN t
  ELSE merge_if_necessary(merge_ssts(t, level), level + 1)

\* LSMTree::flush after part3_create_b_tree_internal_file returned cr: "create filter"
lsm_flush_filter(t, contents, cr) ==
  IF cr.panic # NoPanic THEN [t EXCEPT !.disk = cr.disk, !.pool = Fail(@, cr.panic)]
  ELSE merge_if_necessary(
         [t EXCEPT !.disk = cr.disk,
                   !.filters = [@ EXCEPT ![1] =
                      Some(insert_keys(BitmapNew(10 * Len(contents)), contents, 1))]], 1)

\* LSMTree::flush after the leaf file was written to disk d
lsm_flush_written(t, contents, d) ==
  lsm_flush_filter(t, contents,
    part3_create_b_tree_internal_file(d, LeafFile(1, t.tree_size), InternalFile(1, t.tree_size)))

\* LSMTree::flush
lsm_flush(t, contents) ==
  IF contents = <<>> THEN t
  ELSE lsm_flush_written([t EXCEPT !.tree_size = @ + 1], contents,
         serialize_kv_to_file(t.disk, LeafFile(1, t.tree_size + 1), contents))

\* LSMTree::new: the filter vector has 51 empty slots
LSMTreeNew(buffer_pool_size, memtable_size) ==
  [pool |-> BufferPoolNew(buffer_pool_size), disk |-> <<>>, tree_size |-> 0,
   filters |-> [i \in 0..50 |-> None], memtable_size |-> memtable_size]

\* ------------------------------------------------------------------ state
VARIABLES
  disk,           \* the database directory: file name -> sequence of 16-byte blocks
  pool,           \* the BufferPool of the B-tree / LSM backend
  memtable,       \* Client.memtable (AVLTree: root, size)
  memtable_size,  \* Client.memtable_size / LSMTree.memtable_size
  storage_type,   \* KVConfig.storage_type
  sst_count,      \* Client.sst_count
  tree_size,      \* LSMTree.tree_size
  filters,        \* LSMTree.filters
  panic,          \* NoPanic, or the message of the fatal error that ended the process
  lastOp,         \* the last operation, its arguments and what it returned
  latest,         \* history: key -> value of the most recent put/update/delete
  trace,          \* history: the page keys read through the cache, in order
  kv_arr,         \* the record vector handed to serialization
  nops            \* number of operations performed (bounded by MaxOps)

vars == <<disk, pool, memtable, memtable_size, storage_type, sst_count, tree_size,
          filters, panic, lastOp, latest, trace, kv_arr, nops>>

NoOp == [op |-> "none"]
EmptyDisk == <<>>
\* AVLTree::new
AVLTreeNew == [root |-> <<>>, size |-> 0]

\* the values every specification gives the state it does not use
IdleStore ==
  /\ memtable = AVLTreeNew
  /\ memtable_size = 1
  /\ storage_type = "none"
  /\ sst_count = 0
  /\ filters = <<>>
  /\ latest = <<>>

\* ------------------------------------------- specification: serialization
\* Init draws the record vector; the actions serialize it to a fresh file and
\* deserialize its pages.
SerdeRecs == {<<0, 1>>, <<PadKey, PadKey>>, <<I64_MIN, I64_MAX>>}

SerdeInit ==
  /\ kv_arr \in UNION {[1..n -> SerdeRecs] : n \in 0..MaxRecs}
  /\ disk = EmptyDisk
  /\ pool = BufferPoolNew(0)
  /\ tree_size = 0
  /\ panic = NoPanic
  /\ lastOp = NoOp
  /\ trace = <<>>
  /\ nops = 0
  /\ IdleStore

SerdeSerialize ==
  /\ OutputFile(0) \notin DOMAIN disk
  /\ disk' = serialize_kv_to_file(disk, OutputFile(0), kv_arr)
  /\ lastOp' = [op |-> "serialize_kv_to_file"]
  /\ UNCHANGED <<pool, memtable, memtable_size, storage_type, sst_count, tree_size,
                 filters, panic, latest, trace, kv_arr, nops>>

SerdeDeserialize ==
  /\ OutputFile(0) \in DOMAIN disk
  /\ \E i \in 0..(total_pages_of(disk, OutputFile(0)) - 1) :
       LET r == deserialize_page(disk, OutputFile(0), i * PAGE_SIZE)
       IN  lastOp' = [op |-> "deserialize_page", page_idx |-> i, ok |-> r.ok, arr |-> r.arr]
  /\ UNCHANGED <<disk, pool, memtable, memtable_size, storage_type, sst_count, tree_size,
                 filters, panic, latest, trace, kv_arr, nops>>

SerdeNext == SerdeSerialize \/ SerdeDeserialize

SpecSerde == SerdeInit /\ [][SerdeNext]_vars

\* C7: serialize-then-deserialize is the identity page by page: deserializing
\* page i of the fresh file returns records [ENTRIES*i, min(ENTRIES*(i+1), n)) of
\* the serialized vector, in order, for records over the full word range.
C7_RoundTripPageByPage ==
  lastOp.op = "deserialize_page" =>
    /\ lastOp.ok
    /\ lastOp.arr = SubSeq(kv_arr, ENTRIES * lastOp.page_idx + 1,
                           Min(ENTRIES * (lastOp.page_idx + 1), Len(kv_arr)))

\* --------------------------------------------- specification: page cache
\* A BufferPool of capacity 0..MaxCap in front of a directory whose files are
\* created under never-reused names (level, tree_size) and removed, as
\* LSMTree::flush and merge_ssts do; find_page reads pages of existing files.
RECURSIVE ChainFrom(_, _)
ChainFrom(p, curr_node) ==
  IF curr_node = Nil THEN {} ELSE {curr_node} \cup ChainFrom(p, p.node[curr_node].next)

\* the BufferNodes reachable from the bucket array, and their keys
ChainIds(p) == UNION {ChainFrom(p, p.buffer[b]) : b \in DOMAIN p.buffer}
CachedKeys(p) == {p.node[x].key : x \in ChainIds(p)}

\* the run written for file number r: one or two pages, contents naming r
CacheRun(r) == [i \in 1..(IF r % 2 = 1 THEN ENTRIES + 1 ELSE 1) |-> <<i, r>>]

PageOffsets(d, f) == {i * PAGE_SIZE : i \in 0..(total_pages_of(d, f) - 1)}

CacheInit ==
  /\ pool \in {BufferPoolNew(c) : c \in 0..MaxCap}
  /\ disk = EmptyDisk
  /\ tree_size = 0
  /\ panic = NoPanic
  /\ lastOp = NoOp
  /\ trace = <<>>
  /\ kv_arr = <<>>
  /\ nops = 0
  /\ IdleStore

CacheCreateFile ==
  /\ panic = NoPanic
  /\ tree_size < MaxFiles
  /\ tree_size' = tree_size + 1
  /\ disk' = serialize_kv_to_file(disk, LeafFile(1, tree_size + 1), CacheRun(tree_size + 1))
  /\ lastOp' = NoOp
  /\ UNCHANGED <<pool, memtable, memtable_size, storage_type, sst_count,
                 filters, panic, latest, trace, kv_arr, nops>>

CacheRemoveFile ==
  /\ panic = NoPanic
  /\ \E f \in DOMAIN disk : disk' = [g \in DOMAIN disk \ {f} |-> disk[g]]
  /\ lastOp' = NoOp
  /\ UNCHANGED <<pool, memtable, memtable_size, storage_type, sst_count, tree_size,
                 filters, panic, latest, trace, kv_arr, nops>>

\* the state after find_page(key) returned r (or ended in a fatal error)
CacheFindReturns(key, r) ==
  /\ pool' = r.pool
  /\ panic' = r.pool.panic
  /\ trace' = IF r.pool.panic = NoPanic THEN Append(trace, key) ELSE trace
  /\ lastOp' = [op |-> "find_page", key |-> key, page |-> r.page,
                hit |-> r.hit, before |-> CachedKeys(pool),
                evicted |-> CachedKeys(pool) \ CachedKeys(r.pool)]

CacheFindPage ==
  /\ panic = NoPanic
  /\ Len(trace) < MaxTrace
  /\ \E f \in DOMAIN disk : \E off \in PageOffsets(disk, f) :
       CacheFindReturns(BufferKey(f, off), find_page(pool, disk, f, off))
  /\ UNCHANGED <<disk, memtable, memtable_size, storage_type, sst_count, tree_size,
                 filters, latest, kv_arr, nops>>

CacheNext == CacheCreateFile \/ CacheRemoveFile \/ CacheFindPage

SpecCache == CacheInit /\ [][CacheNext]_vars

\* C8: the page cache is transparent: whatever find_page(file, offset) returns
\* (hit or miss, after any evictions, file creations and deletions) is exactly
\* what deserialize_page(file, offset) returns for the page now on disk.
C8_CacheTransparent ==
  (lastOp.op = "find_page" /\ panic = NoPanic) =>
    LET r == deserialize_page(disk, lastOp.key.sst_name, lastOp.key.page_offset)
    IN  r.ok /\ lastOp.page = r.arr

\* a hit is served from the cache after an eviction and a file removal happened
C8_Witness ==
  /\ lastOp.op = "find_page" /\ panic = NoPanic /\ lastOp.hit
  /\ Cardinality(DOMAIN disk) < tree_size
  /\ Len(trace) > pool.size + 1

NoDuplicates(t) == \A i, j \in 1..Len(t) : t[i] = t[j] => i = j

\* C9: after N > capacity distinct pages were read in order p1..pN (none
\* twice), the cache holds exactly the last `capacity` of them and curr_size
\* equals the capacity.
C9_LastCapacityPagesCached ==
  (panic = NoPanic /\ NoDuplicates(trace) /\ Len(trace) > pool.size) =>
    /\ CachedKeys(pool) = {trace[i] : i \in (Len(trace) - pool.size + 1)..Len(trace)}
    /\ pool.curr_size = pool.size

C9_Witness ==
  /\ panic = NoPanic /\ NoDuplicates(trace) /\ pool.size = 2 /\ Len(trace) = 3

\* index of the latest access of key k in access sequence t
LastAccess(t, k) == CHOOSE i \in 1..Len(t) : t[i] = k /\ \A j \in (i + 1)..Len(t) : t[j] # k

\* C10: every access (hit or miss) leaves the accessed entry at the
\* most-recently-used end of the LRU list, and the entry evicted by a miss on a
\* full cache is the cached entry whose latest access is the oldest.
C10_HitMovesToBackEvictOldest ==
  (lastOp.op = "find_page" /\ panic = NoPanic) =>
    LET before == SubSeq(trace, 1, Len(trace) - 1)
    IN  /\ pool.back_q \in DOMAIN pool.lru
        /\ pool.lru[pool.back_q].data \in DOMAIN pool.node
        /\ pool.node[pool.lru[pool.back_q].data].key = lastOp.key
        /\ (~lastOp.hit /\ Cardinality(lastOp.before) = pool.size) =>
             \E k \in lastOp.before :
               /\ lastOp.evicted = {k}
               /\ \A k2 \in lastOp.before : LastAccess(before, k) <= LastAccess(before, k2)
        /\ (lastOp.hit \/ Cardinality(lastOp.before) < pool.size) => lastOp.evicted = {}

\* a miss on a full cache evicts an entry that is not the oldest inserted one,
\* because the oldest inserted entry was hit in between
C10_Witness ==
  /\ lastOp.op = "find_page" /\ panic = NoPanic /\ ~lastOp.hit
  /\ pool.size = 2 /\ Len(trace) = 4
  /\ trace[1] = trace[3] /\ lastOp.evicted = {trace[2]}

\* C11: with a capacity of 0 every find_page misses, returns the page's
\* records as read from disk and bypasses caching: nothing is inserted or
\* evicted, the cache stays empty and no fatal error is raised.
C11_CapacityZeroBypasses ==
  (pool.size = 0 /\ lastOp.op = "find_page") =>
    /\ panic = NoPanic
    /\ ~lastOp.hit
    /\ lastOp.page = deserialize_page(disk, lastOp.key.sst_name, lastOp.key.page_offset).arr
    /\ pool.curr_size = 0 /\ pool.node = <<>> /\ pool.lru = <<>>

\* the bucket chain from BufferNode x along next, at most fuel entries
RECURSIVE ChainSeqFrom(_, _, _)
ChainSeqFrom(p, x, fuel) ==
  IF x = Nil \/ fuel = 0 \/ x \notin DOMAIN p.node THEN <<>>
  ELSE <<x>> \o ChainSeqFrom(p, p.node[x].next, fuel - 1)

ChainSeq(p, b) == ChainSeqFrom(p, p.buffer[b], Cardinality(DOMAIN p.node) + 1)

\* the LRU list from the front (next to evict) along prev, at most fuel entries
RECURSIVE LruSeqFrom(_, _, _)
LruSeqFrom(p, x, fuel) ==
  IF x = Nil \/ fuel = 0 \/ x \notin DOMAIN p.lru THEN <<>>
  ELSE <<x>> \o LruSeqFrom(p, p.lru[x].prev, fuel - 1)

LruSeq(p) == LruSeqFrom(p, p.front_q, Cardinality(DOMAIN p.lru) + 1)

RECURSIVE SumLen(_, _)
SumLen(p, bs) ==
  IF bs = {} THEN 0
  ELSE LET b == CHOOSE x \in bs : TRUE IN Len(ChainSeq(p, b)) + SumLen(p, bs \ {b})

\* the positions of x in sequence t
Positions(t, x) == {i \in 1..Len(t) : t[i] = x}

\* every live entry is in exactly one bucket chain, the one of its key's hash,
\* and its LRUNode is at exactly one position of the LRU list
EntryLinked(p, x) ==
  /\ \A b \in DOMAIN p.buffer :
       Cardinality(Positions(ChainSeq(p, b), x))
         = (IF b = custom_hash(p.node[x].key, p.size) THEN 1 ELSE 0)
  /\ p.node[x].lru_node \in DOMAIN p.lru
  /\ p.lru[p.node[x].lru_node].data = x
  /\ Cardinality(Positions(LruSeq(p), p.node[x].lru_node)) = 1

\* C12: in every state reachable by find_page calls on a cache of capacity
\* >= 1: 0 <= curr_size <= capacity; curr_size is the number of entries on the
\* bucket chains and the length of the LRU list; every entry is in exactly one
\* bucket chain (that of its key's hash) and at one LRU position; keys are
\* unique; front and back are both null or both non-null; no runtime check fires.
C12_CacheStructure ==
  pool.size >= 1 =>
    /\ panic = NoPanic /\ pool.panic = NoPanic
    /\ 0 <= pool.curr_size /\ pool.curr_size <= pool.size
    /\ pool.curr_size = SumLen(pool, DOMAIN pool.buffer)
    /\ pool.curr_size = Len(LruSeq(pool))
    /\ pool.curr_size = Cardinality(DOMAIN pool.node)
    /\ pool.curr_size = Cardinality(DOMAIN pool.lru)
    /\ \A x \in DOMAIN pool.node : EntryLinked(pool, x)
    /\ \A x, y \in DOMAIN pool.node : pool.node[x].key = pool.node[y].key => x = y
    /\ (pool.front_q = Nil) = (pool.back_q = Nil)
    /\ pool.curr_size > 0 => LruSeq(pool)[pool.curr_size] = pool.back_q

\* a full cache of two entries on one bucket chain, after an eviction and a hit
C12_Witness ==
  /\ pool.size = 2 /\ pool.curr_size = 2 /\ panic = NoPanic
  /\ \E b \in DOMAIN pool.buffer : Len(ChainSeq(pool, b)) = 2
  /\ lastOp.op = "find_page" /\ lastOp.hit
  /\ Len(trace) > 3

\* ------------------------------------------------- specification: the store
\* A Client over one of the three backends.  The storage object S is
\* [storage_type, pool, disk, tree_size, filters, memtable_size].
Storage ==
  [storage_type |-> storage_type, pool |-> pool, disk |-> disk, tree_size |-> tree_size,
   filters |-> filters, memtable_size |-> memtable_size]

\* the result of a serde.rs call (Ret / Panicked) as a pool-threading result
with_pool(p, r) == IF r.panic # NoPanic THEN PoolRet(Fail(p, r.panic), r.value)
                   ELSE PoolRet(p, r.value)

\* DiskStorage::get of the three backends
storage_get(S, key) ==
  CASE S.storage_type = "append_only_log" -> with_pool(S.pool, get_value_ssts(S.disk, key))
    [] S.storage_type = "b_tree" -> get_b_tree_ssts(S.pool, S.disk, key)
    [] S.storage_type = "lsm_tree" -> lsm_get(S, key)

\* DiskStorage::scan of the three backends
storage_scan(S, start, end, hash) ==
  CASE S.storage_type = "append_only_log" ->
         with_pool(S.pool, scan_ssts(S.disk, start, end, hash))
    [] S.storage_type = "b_tree" -> scan_b_tree_ssts(S.pool, S.disk, start, end, hash)
    [] S.storage_type = "lsm_tree" -> lsm_scan(S, start, end, hash)

\* DiskStorage::flush of the three backends
storage_flush(S, count, contents) ==
  CASE S.storage_type = "append_only_log" ->
         [S EXCEPT !.disk = serialize_kv_to_file(@, OutputFile(count), contents)]
    [] S.storage_type = "b_tree" ->
         [S EXCEPT !.disk = convert_sorted_arr_to_b_tree_arr_and_serialize(
                              @, OutputFile(count), contents)]
    [] S.storage_type = "lsm_tree" -> lsm_flush(S, contents)

\* Client::get given the memtable's answer: .or_else(|| self.storage.get(key))
client_get_or_else(S, key, from_memtable) ==
  IF from_memtable # None THEN PoolRet(S.pool, from_memtable) ELSE storage_get(S, key)

\* Client::get, the tombstone check on the result r
client_get_result(r) ==
  IF r.value # None /\ r.value[1] = I64_MIN THEN PoolRet(r.pool, None) ELSE r

\* Client::get
client_get(mt, S, key) == client_get_result(client_get_or_else(S, key, get_value(mt.root, key)))

\* kv_hash.into_iter().filter(|a| a.1 != i64::MIN).collect(), as a set of pairs
collect_live(kv_hash) == {<<k, kv_hash[k]>> : k \in {x \in DOMAIN kv_hash : kv_hash[x] # I64_MIN}}

\* Client::scan
client_scan(mt, S, start, end) ==
  IF start > end THEN PoolRet(S.pool, <<>>)
  ELSE storage_scan(S, start, end, scan_tree(mt.root, start, end, <<>>))

\* the keys and values the operations draw from: the padding word is among both,
\* the tombstone i64::MIN among the values
Keys == {PadKey, 1}
Vals == {I64_MIN, PadKey, 1}
StorageTypes == {"append_only_log", "b_tree", "lsm_tree"}

Never == [op |-> "none", value |-> 0]
Deleted == [op |-> "delete", value |-> 0]
Written(v) == [op |-> "put", value |-> v]

\* what the history says get(key) returns: the most recent put/update, or absent
Expected(key) == IF latest[key].op = "put" THEN Some(latest[key].value) ELSE None

\* the part of the previous operation a later one remembers
Prev == IF lastOp.op \in {"put", "update"}
        THEN [op |-> lastOp.op, key |-> lastOp.key, value |-> lastOp.value]
        ELSE IF lastOp.op = "get"
        THEN [op |-> lastOp.op, key |-> lastOp.key, value |-> 0]
        ELSE [op |-> lastOp.op, key |-> 0, value |-> 0]

\* Client::open on a fresh directory
Init ==
  /\ storage_type \in StorageTypes
  /\ memtable_size \in 1..MaxMem
  /\ \E c \in {0, MaxCap} :
       pool = BufferPoolNew(IF storage_type = "append_only_log" THEN 0 ELSE c)
  /\ disk = EmptyDisk
  /\ memtable = AVLTreeNew
  /\ sst_count = 0
  /\ tree_size = 0
  /\ filters = [i \in 0..50 |-> None]
  /\ panic = NoPanic
  /\ lastOp = NoOp
  /\ latest = [k \in Keys |-> Never]
  /\ trace = <<>>
  /\ kv_arr = <<>>
  /\ nops = 0

\* the storage object becomes S
StorageBecomes(S) ==
  /\ pool' = S.pool
  /\ disk' = S.disk
  /\ tree_size' = S.tree_size
  /\ filters' = S.filters
  /\ panic' = S.pool.panic

\* Client::flush after self.storage.flush returned
Flushed(S) ==
  /\ StorageBecomes(S)
  /\ sst_count' = sst_count + 1
  /\ memtable' = AVLTreeNew

\* Client::flush
Flush(mt) == Flushed(storage_flush(Storage, sst_count, scan_all_tree(mt.root)))

\* Client::put after self.memtable.put made the memtable mt
PutDone(mt) ==
  IF mt.size >= memtable_size THEN Flush(mt)
  ELSE /\ memtable' = mt
       /\ UNCHANGED <<pool, disk, tree_size, filters, panic, sst_count>>

\* Client::put
Put ==
  /\ panic = NoPanic /\ nops < MaxOps
  /\ \E key \in Keys, value \in Vals :
       /\ PutDone(avl_put(memtable, key, value))
       /\ latest' = [latest EXCEPT ![key] = Written(value)]
       /\ lastOp' = [op |-> "put", key |-> key, value |-> value]
  /\ nops' = nops + 1
  /\ UNCHANGED <<memtable_size, storage_type, trace, kv_arr>>

\* Client::update
Update ==
  /\ panic = NoPanic /\ nops < MaxOps
  /\ \E key \in Keys, value \in Vals :
       /\ memtable' = avl_put(memtable, key, value)
       /\ latest' = [latest EXCEPT ![key] = Written(value)]
       /\ lastOp' = [op |-> "update", key |-> key, value |-> value]
  /\ nops' = nops + 1
  /\ UNCHANGED <<pool, disk, tree_size, filters, panic, sst_count, memtable_size,
                 storage_type, trace, kv_arr>>

\* Client::delete
Delete ==
  /\ panic = NoPanic /\ nops < MaxOps
  /\ \E key \in Keys :
       /\ memtable' = avl_put(memtable, key, I64_MIN)
       /\ latest' = [latest EXCEPT ![key] = Deleted]
       /\ lastOp' = [op |-> "delete", key |-> key]
  /\ nops' = nops + 1
  /\ UNCHANGED <<pool, disk, tree_size, filters, panic, sst_count, memtable_size,
                 storage_type, trace, kv_arr>>

\* Client::get returned r (or ended in the fatal error r.pool.panic)
GetReturns(key, r) ==
  /\ pool' = r.pool
  /\ panic' = r.pool.panic
  /\ lastOp' = [op |-> "get", key |-> key, result |-> r.value, panic |-> r.pool.panic,
                after |-> Prev]

\* Client::get
Get ==
  /\ panic = NoPanic /\ nops < MaxOps
  /\ \E key \in Keys : GetReturns(key, client_get(memtable, Storage, key))
  /\ nops' = nops + 1
  /\ UNCHANGED <<disk, memtable, memtable_size, storage_type, sst_count, tree_size, filters,
                 latest, trace, kv_arr>>

\* Client::scan returned the pairs of r.value (or ended in a fatal error)
ScanReturns(start, end, r) ==
  /\ pool' = r.pool
  /\ panic' = r.pool.panic
  /\ lastOp' = [op |-> "scan", start |-> start, end |-> end,
                result |-> collect_live(r.value), panic |-> r.pool.panic]

\* Client::scan
Scan ==
  /\ panic = NoPanic /\ nops < MaxOps
  /\ \E start \in Keys, end \in Keys :
       ScanReturns(start, end, client_scan(memtable, Storage, start, end))
  /\ nops' = nops + 1
  /\ UNCHANGED <<disk, memtable, memtable_size, storage_type, sst_count, tree_size, filters,
                 latest, trace, kv_arr>>

\* Client::close
Close ==
  /\ panic = NoPanic /\ nops < MaxOps
  /\ memtable.size > 0
  /\ Flush(memtable)
  /\ lastOp' = [op |-> "close"]
  /\ nops' = nops + 1
  /\ UNCHANGED <<memtable_size, storage_type, latest, trace, kv_arr>>

Next == Put \/ Update \/ Delete \/ Get \/ Scan \/ Close

Spec == Init /\ [][Next]_vars

\* C1: with the append-only backend every get returns the value of the most recent
\* put/update of its key, or absent if the key was never written or was deleted
\* last, and does not end in a fatal error (writes of the value i64::MIN, which
\* the store reads as a delete, are set aside here: see C5).
C1_AppendOnlyGetLatest ==
  (storage_type = "append_only_log" /\ lastOp.op = "get"
     /\ \A k \in Keys : latest[k].op = "put" => latest[k].value # I64_MIN)
  => (lastOp.panic = NoPanic /\ lastOp.result = Expected(lastOp.key))

\* C3: with the LSM backend (and a cache of capacity >= 1) no operation ends in a
\* fatal error, and every get returns the value of the most recent put/update of
\* its key, or absent if the key was never written or was deleted last.
C3_LsmGetLatest ==
  (storage_type = "lsm_tree" /\ pool.size >= 1)
  => /\ panic = NoPanic
     /\ (lastOp.op = "get"
           /\ \A k \in Keys : latest[k].op = "put" => latest[k].value # I64_MIN)
        => lastOp.result = Expected(lastOp.key)

\* what get(k) returns in the current state: <<v>> or None
GetNow(k) == client_get(memtable, Storage, k)

\* C4: a scan(lo, hi) with lo <= hi that returned, in a state where every get
\* returns, returned exactly the pairs (k, get(k)) with lo <= k <= hi and get(k)
\* present.
C4_ScanEqualsGets ==
  (lastOp.op = "scan" /\ lastOp.start <= lastOp.end /\ lastOp.panic = NoPanic
     /\ \A k \in I64_MIN..I64_MAX : GetNow(k).pool.panic = NoPanic)
  => lastOp.result =
       {<<k, GetNow(k).value[1]>> :
          k \in {x \in lastOp.start..lastOp.end : GetNow(x).value # None}}

\* C5: a get(k) that immediately follows put(k, v), v not i64::MIN, returns v.
C5_PutThenGet ==
  (lastOp.op = "get" /\ lastOp.after.op = "put" /\ lastOp.after.key = lastOp.key
     /\ lastOp.after.value # I64_MIN)
  => (lastOp.panic = NoPanic /\ lastOp.result = Some(lastOp.after.value))

\* C6: while the most recent write of k is a delete (and the cache has capacity
\* >= 1), get(k) returns absent and no scan result holds a pair with key k.
C6_DeleteShadows ==
  pool.size >= 1 \/ storage_type = "append_only_log"
  => /\ (lastOp.op = "get" /\ latest[lastOp.key] = Deleted)
          => (lastOp.panic = NoPanic /\ lastOp.result = None)
     /\ lastOp.op = "scan" => \A kv \in lastOp.result : latest[kv[1]] # Deleted

\* --------------------------------------- specification: B-tree sorted runs
\* The B-tree backend fed with whole memtable images: Init and every flush draw
\* the sorted record sequence of the next flush (up to MaxRecs records, so runs
\* of one, two and three leaf pages); a get searches the runs on disk.

\* C20: the memtable is drained whenever its record count reaches the
\* threshold: after any put, update or delete returns, the memtable holds fewer
\* than memtable_size records.
C20_MemtableDrained ==
  (lastOp.op \in {"put", "update", "delete"} /\ panic = NoPanic) =>
    memtable.size < memtable_size

\* a sorted run of n records written by flush number count: every second key
\* from first on, each with the value count
SortedRun(n, first, count) == [i \in 1..n |-> <<first + 2 * (i - 1), count>>]
SortedRuns(count) ==
  {SortedRun(n, first, count) : n \in 1..MaxRecs, first \in {I64_MIN, I64_MIN + 1}}

BTreeInit ==
  /\ storage_type = "b_tree"
  /\ memtable_size = 1
  /\ pool = BufferPoolNew(MaxCap)
  /\ disk = EmptyDisk
  /\ memtable = AVLTreeNew
  /\ sst_count = 0
  /\ tree_size = 0
  /\ filters = <<>>
  /\ panic = NoPanic
  /\ lastOp = NoOp
  /\ latest = [k \in I64_MIN..I64_MAX |-> Never]
  /\ trace = <<>>
  /\ kv_arr \in SortedRuns(0)
  /\ nops = 0

\* Client::flush of a memtable holding kv_arr
BTreeFlush ==
  /\ panic = NoPanic /\ sst_count < MaxFiles
  /\ disk' = storage_flush(Storage, sst_count, kv_arr).disk
  /\ sst_count' = sst_count + 1
  /\ kv_arr' \in IF sst_count + 1 < MaxFiles THEN SortedRuns(sst_count + 1) ELSE {<<>>}
  /\ latest' = [k \in DOMAIN latest |->
                  IF \E i \in 1..Len(kv_arr) : kv_arr[i][1] = k THEN Written(sst_count)
                  ELSE latest[k]]
  /\ lastOp' = [op |-> "flush"]
  /\ UNCHANGED <<pool, memtable, memtable_size, storage_type, tree_size, filters, panic,
                 trace, nops>>

\* DiskStorage::get of the B-tree backend returned r
BTreeGetReturns(key, r) ==
  /\ pool' = r.pool
  /\ panic' = r.pool.panic
  /\ lastOp' = [op |-> "get", key |-> key, result |-> r.value, panic |-> r.pool.panic]

\* DiskStorage::get of the B-tree backend
BTreeGet ==
  /\ panic = NoPanic /\ nops < MaxGets
  /\ \E key \in I64_MIN..I64_MAX : BTreeGetReturns(key, storage_get(Storage, key))
  /\ nops' = nops + 1
  /\ UNCHANGED <<disk, memtable, memtable_size, storage_type, sst_count, tree_size, filters,
                 latest, trace, kv_arr>>

BTreeNext == BTreeFlush \/ BTreeGet

SpecBTree == BTreeInit /\ [][BTreeNext]_vars

\* C2: with the B-tree backend a point get over runs of any number of leaf pages
\* returns the value the newest run containing the key holds for it, and absent
\* for a key no run contains.
C2_BTreeGetAnyPageCount ==
  lastOp.op = "get" => (lastOp.panic = NoPanic /\ lastOp.result = Expected(lastOp.key))

\* --------------------------------------------- specification: the memtable
\* An AVLTree under put, get, scan and scan_all.  latest is the map the
\* memtable stands for: latest[k] is Never or Written(v) of the last put(k, v).
MemKeys == 1..MaxMemKeys
MemVals == {0, 1}

\* balance_avl_tree: the fatal path root would take, or NoPanic
balance_fatal(root) ==
  IF balance_factor(root) \in (0 - 1)..1 THEN NoPanic
  ELSE IF balance_factor(root) = 2
    THEN IF root[4] = None THEN "invalid AVL tree" ELSE NoPanic
  ELSE IF balance_factor(root) = 0 - 2
    THEN IF root[5] = None THEN "invalid AVL tree" ELSE NoPanic
  ELSE "invalid balance factor"

\* insert_value: the fatal path reached while inserting key below child, whose
\* parent was rebuilt as `parent` after the recursive call
insert_fatal_then(below, parent) == IF below # NoPanic THEN below ELSE balance_fatal(parent)

\* insert_value: the first fatal path the insertion of key reaches, or NoPanic
RECURSIVE insert_fatal(_, _, _)
insert_fatal(root, key, value) ==
  IF root = None \/ key = root[1] THEN NoPanic
  ELSE IF key < root[1]
    THEN insert_fatal_then(insert_fatal(root[4], key, value),
           update_height([root EXCEPT ![4] = insert_value(root[4], key, value)[1]]))
  ELSE insert_fatal_then(insert_fatal(root[5], key, value),
         update_height([root EXCEPT ![5] = insert_value(root[5], key, value)[1]]))

MemInit ==
  /\ memtable = AVLTreeNew
  /\ latest = [k \in MemKeys |-> Never]
  /\ panic = NoPanic
  /\ lastOp = NoOp
  /\ nops = 0
  /\ memtable_size = 1
  /\ storage_type = "none"
  /\ sst_count = 0
  /\ filters = <<>>
  /\ disk = EmptyDisk
  /\ pool = BufferPoolNew(0)
  /\ tree_size = 0
  /\ trace = <<>>
  /\ kv_arr = <<>>

\* Memtable::put(key, value), given the fatal path the insertion reaches
MemPutDone(key, value, fatal) ==
  /\ panic' = fatal
  /\ memtable' = IF fatal = NoPanic THEN avl_put(memtable, key, value) ELSE memtable
  /\ latest' = [latest EXCEPT ![key] = Written(value)]
  /\ lastOp' = [op |-> "put", key |-> key, value |-> value, size |-> memtable.size,
                existed |-> latest[key] # Never]

\* Memtable::put
MemPut ==
  /\ panic = NoPanic
  /\ \E key \in MemKeys, value \in MemVals :
       MemPutDone(key, value, insert_fatal(memtable.root, key, value))
  /\ UNCHANGED <<disk, pool, memtable_size, storage_type, sst_count, tree_size, filters,
                 trace, kv_arr, nops>>

\* Memtable::get
MemGet ==
  /\ panic = NoPanic /\ lastOp.op \in {"none", "put"}
  /\ \E key \in MemKeys :
       lastOp' = [op |-> "get", key |-> key, result |-> get_value(memtable.root, key)]
  /\ UNCHANGED <<disk, pool, memtable, memtable_size, storage_type, sst_count, tree_size,
                 filters, panic, latest, trace, kv_arr, nops>>

\* the HashMaps handed to scan: empty, or holding one entry of a value no put writes
MemOuts == {<<>>} \cup {[x \in {k} |-> 7] : k \in {1, MaxMemKeys}}

\* Memtable::scan(start, end, kv_hash)
MemScan ==
  /\ panic = NoPanic /\ lastOp.op \in {"none", "put"}
  /\ \E start \in MemKeys, end \in MemKeys, out \in MemOuts :
       lastOp' = [op |-> "scan", start |-> start, end |-> end, out |-> out,
                  result |-> scan_tree(memtable.root, start, end, out)]
  /\ UNCHANGED <<disk, pool, memtable, memtable_size, storage_type, sst_count, tree_size,
                 filters, panic, latest, trace, kv_arr, nops>>

\* Memtable::scan_all
MemScanAll ==
  /\ panic = NoPanic /\ lastOp.op \in {"none", "put"}
  /\ lastOp' = [op |-> "scan_all", result |-> scan_all_tree(memtable.root)]
  /\ UNCHANGED <<disk, pool, memtable, memtable_size, storage_type, sst_count, tree_size,
                 filters, panic, latest, trace, kv_arr, nops>>

MemNext == MemPut \/ MemGet \/ MemScan \/ MemScanAll

SpecMem == MemInit /\ [][MemNext]_vars

\* the keys put so far
MemWritten == {k \in MemKeys : latest[k] # Never}

\* C16: the memtable behaves as a map: get(k) returns the value of the last
\* put(k), or absent if k was never put; a put of an existing key leaves size()
\* unchanged, a put of a new key adds one; size() is the number of distinct keys.
C16_MemtableIsMap ==
  /\ lastOp.op = "get" =>
       lastOp.result = (IF latest[lastOp.key] = Never THEN None
                        ELSE Some(latest[lastOp.key].value))
  /\ (lastOp.op = "put" /\ panic = NoPanic) =>
       /\ memtable.size = lastOp.size + (IF lastOp.existed THEN 0 ELSE 1)
       /\ get_value(memtable.root, lastOp.key) = Some(lastOp.value)
  /\ memtable.size = Cardinality(MemWritten)

\* a get returns the second of two values put for a key, in a memtable of three keys
C16_Witness ==
  /\ lastOp.op = "get" /\ lastOp.result = Some(1)
  /\ memtable.size = 3
  /\ \E n \in {memtable.root[4], memtable.root[5]} :
       n # None /\ n[1] = lastOp.key

\* the nodes of a tree
RECURSIVE NodesOf(_)
NodesOf(root) ==
  IF root = None THEN {} ELSE {root} \cup NodesOf(root[4]) \cup NodesOf(root[5])

\* the keys of a tree
KeysOf(root) == {n[1] : n \in NodesOf(root)}

\* the height of a tree, counted from its shape
RECURSIVE TrueHeight(_)
TrueHeight(root) ==
  IF root = None THEN 0 ELSE 1 + Max(TrueHeight(root[4]), TrueHeight(root[5]))

\* C17: after any sequence of puts every node's two subtrees differ in height
\* by at most one, every stored height is 1 + the larger child height, the
\* search-tree ordering holds, and no fatal path of the rebalancing is reached.
C17_AvlInvariants ==
  /\ panic = NoPanic
  /\ \A n \in NodesOf(memtable.root) :
       /\ TrueHeight(n[4]) - TrueHeight(n[5]) \in (0 - 1)..1
       /\ n[3] = TrueHeight(n)
       /\ n[3] = 1 + Max(height_of(n[4]), height_of(n[5]))
       /\ \A k \in KeysOf(n[4]) : k < n[1]
       /\ \A k \in KeysOf(n[5]) : k > n[1]

\* a tree of height three that took a rotation below the root: its root is not
\* the median the first three keys would have produced
C17_Witness ==
  /\ lastOp.op = "put" /\ ~lastOp.existed /\ memtable.size = MaxMemKeys
  /\ memtable.root[3] = 3
  /\ memtable.root[4] # None /\ memtable.root[5] # None
  /\ memtable.root[4][3] # memtable.root[5][3]

\* C18: scan_all returns every stored record exactly once in strictly
\* ascending key order (the sequence Client::flush hands to the backend).
C18_ScanAllSorted ==
  lastOp.op = "scan_all" =>
    /\ Len(lastOp.result) = Cardinality(MemWritten)
    /\ \A i \in 1..(Len(lastOp.result) - 1) : lastOp.result[i][1] < lastOp.result[i + 1][1]
    /\ {lastOp.result[i] : i \in 1..Len(lastOp.result)}
         = {<<k, latest[k].value>> : k \in MemWritten}

\* scan_all of a full memtable whose keys were not put in ascending order
C18_Witness ==
  /\ lastOp.op = "scan_all" /\ Len(lastOp.result) = MaxMemKeys
  /\ memtable.root[1] # 2 /\ memtable.root[1] # 4
  /\ \E i \in 1..MaxMemKeys : lastOp.result[i][2] = 1

\* C19: scan(lo, hi, out) adds (k, v) for the stored keys lo <= k <= hi that are
\* not yet keys of out; entries already in out keep their values and no key
\* outside [lo, hi] is added.
C19_ScanKeepsExisting ==
  lastOp.op = "scan" =>
    lastOp.result =
      [k \in DOMAIN lastOp.out \cup {x \in MemWritten : lastOp.start <= x /\ x <= lastOp.end}
         |-> IF k \in DOMAIN lastOp.out THEN lastOp.out[k] ELSE latest[k].value]

\* ------------------------------------------- specification: the LSM backend
\* An LSMTree fed by Client::flush with whole memtables: sorted runs of
\* memtable_size records (a put filled the memtable) or one more (an update or
\* delete grew it first).  memtable_size is 1 (runs of one leaf page) or
\* ENTRIES + 1 (runs of two leaf pages).  trace lists the flushed run lengths.
LsmGetKeys == {I64_MIN, I64_MIN + 1, I64_MAX}

LsmInit ==
  /\ storage_type = "lsm_tree"
  /\ memtable_size \in {1, ENTRIES + 1}
  /\ pool = BufferPoolNew(MaxCap)
  /\ disk = EmptyDisk
  /\ tree_size = 0
  /\ filters = [i \in 0..50 |-> None]
  /\ memtable = AVLTreeNew
  /\ sst_count = 0
  /\ panic = NoPanic
  /\ lastOp = NoOp
  /\ latest = [k \in I64_MIN..I64_MAX |-> Never]
  /\ trace = <<>>
  /\ kv_arr = <<>>
  /\ nops = 0

\* Client::flush with output_lst = contents
LsmFlushes(contents) ==
  /\ StorageBecomes(storage_flush(Storage, sst_count, contents))
  /\ sst_count' = sst_count + 1
  /\ trace' = Append(trace, Len(contents))
  /\ latest' = [k \in DOMAIN latest |->
                  IF \E i \in 1..Len(contents) : contents[i][1] = k
                  THEN Written(sst_count + 1) ELSE latest[k]]
  /\ lastOp' = [op |-> "flush", len |-> Len(contents)]

\* Client::flush of a full memtable
LsmFlush ==
  /\ panic = NoPanic /\ sst_count < MaxFlushes
  /\ \E n \in {memtable_size, memtable_size + 1}, first \in {I64_MIN, I64_MIN + 1} :
       LsmFlushes(SortedRun(n, first, sst_count + 1))
  /\ UNCHANGED <<memtable, memtable_size, storage_type, kv_arr, nops>>

\* LSMTree::get returned r
LsmGetReturns(key, r) ==
  /\ pool' = r.pool
  /\ panic' = r.pool.panic
  /\ lastOp' = [op |-> "get", key |-> key, result |-> r.value, panic |-> r.pool.panic]

\* LSMTree::get
LsmGet ==
  /\ panic = NoPanic /\ nops < MaxGets /\ tree_size > 0
  /\ \E key \in LsmGetKeys : LsmGetReturns(key, storage_get(Storage, key))
  /\ nops' = nops + 1
  /\ UNCHANGED <<disk, memtable, memtable_size, storage_type, sst_count, tree_size, filters,
                 latest, trace, kv_arr>>

LsmNext == LsmFlush \/ LsmGet

SpecLsm == LsmInit /\ [][LsmNext]_vars

\* the leaf files of level L, and bit (L-1) of K
LeafFilesAt(L) == {f \in DOMAIN disk : f.kind = "leaf" /\ f.level = L}
BitSet(K, L) == (K \div (2 ^ (L - 1))) % 2 = 1
LsmLevels == 1..(MaxFlushes + 2)

\* C13: in the LSM backend, after K non-empty flushes tree_size = K, a run
\* exists at level L iff bit (L-1) of K is set, and no level holds two runs.
C13_LevelsAreBits ==
  (storage_type = "lsm_tree" /\ panic = NoPanic) =>
    /\ tree_size = sst_count
    /\ \A f \in DOMAIN disk : f.level \in LsmLevels
    /\ \A L \in LsmLevels :
         Cardinality(LeafFilesAt(L)) = (IF BitSet(sst_count, L) THEN 1 ELSE 0)

\* after four flushes of two-page runs the two cascaded merges left one run at level 3
C13_Witness ==
  /\ storage_type = "lsm_tree" /\ panic = NoPanic
  /\ sst_count = 4 /\ LeafFilesAt(3) # {} /\ memtable_size = ENTRIES + 1

\* the number of records in pages page_idx.. of file f
RECURSIVE RecordsFrom(_, _)
RecordsFrom(f, page_idx) ==
  IF page_idx >= total_pages_of(disk, f) THEN 0
  ELSE Len(deserialize_page(disk, f, page_idx * PAGE_SIZE).arr) + RecordsFrom(f, page_idx + 1)

\* C14: in the LSM backend each present level L holds one run of exactly
\* 2^(L-1) * memtable_size records, whatever operations filled the memtables.
C14_RunSizes ==
  (storage_type = "lsm_tree" /\ panic = NoPanic) =>
    \A f \in DOMAIN disk :
      f.kind = "leaf" => RecordsFrom(f, 0) = (2 ^ (f.level - 1)) * memtable_size

\* C15: after every flush the directory holds, for each present level L, the
\* files output_leaf_L_R and output_internal_L_R with
\* R = floor(tree_size / 2^(L-1)) * 2^(L-1), and no other run file.
C15_RunFilesExist ==
  (storage_type = "lsm_tree" /\ panic = NoPanic) =>
    DOMAIN disk =
      UNION {{LeafFile(L, (tree_size \div (2 ^ (L - 1))) * (2 ^ (L - 1))),
              InternalFile(L, (tree_size \div (2 ^ (L - 1))) * (2 ^ (L - 1)))} :
             L \in {x \in LsmLevels : BitSet(tree_size, x)}}

\* --------------------------------------- specification: the store, restarted
\* The store of Spec with the two steps Spec leaves out: close() of an empty
\* memtable, and a restart (the closed store is dropped without cleanup and
\* Client::open runs again on the same directory).  trace lists the restarts.

\* C22: a scan with start > end returns the empty sequence, and a get of a key
\* that is nowhere stored returns absent rather than failing.
C22_EmptyRangeAndAbsentKey ==
  /\ (lastOp.op = "scan" /\ lastOp.start > lastOp.end) =>
       (lastOp.result = {} /\ lastOp.panic = NoPanic)
  /\ (lastOp.op = "get" /\ latest[lastOp.key] = Never) =>
       (lastOp.result = None /\ lastOp.panic = NoPanic)

\* Client::close when the memtable is empty: nothing is flushed
CloseIdle ==
  /\ panic = NoPanic /\ nops < MaxOps
  /\ memtable.size = 0
  /\ lastOp' = [op |-> "close"]
  /\ nops' = nops + 1
  /\ UNCHANGED <<disk, pool, memtable, memtable_size, storage_type, sst_count, tree_size,
                 filters, panic, latest, trace, kv_arr>>

\* faulty variant of file_count: the files of the directory are not counted
file_count_zero(d) == 0

\* Client::open, count: the number of files of an existing directory
file_count(d) == Cardinality(DOMAIN d)

\* LSMTree::new on the directory the first open created: create_dir(&name).unwrap()
create_dir_again == "called Result::unwrap() on an Err value: AlreadyExists"

\* Client::open on the directory of a closed store
Reopen ==
  /\ panic = NoPanic /\ nops < MaxOps
  /\ lastOp.op = "close"
  /\ memtable' = AVLTreeNew
  /\ sst_count' = file_count(disk)
  /\ pool' = BufferPoolNew(pool.size)
  /\ tree_size' = 0
  /\ filters' = [i \in 0..50 |-> None]
  /\ panic' = IF storage_type = "lsm_tree" THEN create_dir_again ELSE NoPanic
  /\ lastOp' = [op |-> "open"]
  /\ trace' = Append(trace, "open")
  /\ nops' = nops + 1
  /\ UNCHANGED <<disk, memtable_size, storage_type, latest, kv_arr>>

RestartNext == Next \/ CloseIdle \/ Reopen

SpecRestart == Init /\ [][RestartNext]_vars

\* the file-per-flush backends
FileBackend == storage_type \in {"append_only_log", "b_tree"}

\* a step that changes the directory adds the one file output_{i}.bin, i the
\* number of files before, leaves every other file as it was and empties the memtable
OneNewFile ==
  disk' # disk =>
    /\ OutputFile(Cardinality(DOMAIN disk)) \notin DOMAIN disk
    /\ DOMAIN disk' = DOMAIN disk \cup {OutputFile(Cardinality(DOMAIN disk))}
    /\ \A f \in DOMAIN disk : disk'[f] = disk[f]
    /\ memtable' = AVLTreeNew

\* files are numbered 0..n-1 and read newest first
FilesNumbered ==
  /\ DOMAIN disk = {OutputFile(i) : i \in 0..(sst_count - 1)}
  /\ get_sst_names(disk) = [i \in 1..sst_count |-> OutputFile(sst_count - i)]

\* C21: in the append-only and B-tree backends each flush writes exactly one
\* new file output_{i}.bin, i the number of files already there, and never
\* touches an existing run; after n flushes the directory holds
\* output_0.bin .. output_{n-1}.bin, the memtable is empty after each flush and
\* reads enumerate the files from n-1 down to 0.
C21_OneFilePerFlush ==
  /\ [](FileBackend => FilesNumbered)
  /\ [][FileBackend => OneNewFile]_vars

\* two runs on disk, the second flushed after a restart
C21_Witness ==
  /\ FileBackend /\ sst_count = 2 /\ Len(trace) = 1
  /\ DOMAIN disk = {OutputFile(0), OutputFile(1)} /\ lastOp.op = "put"

\* the run a flush leaves newest: output_{sst_count}.bin, or in the LSM backend
\* the leaf file of the lowest present level
RECURSIVE LowLevel(_, _)
LowLevel(K, L) == IF K % 2 = 1 \/ K = 0 THEN L ELSE LowLevel(K \div 2, L + 1)
NewestRun ==
  IF storage_type = "lsm_tree" THEN LeafFile(LowLevel(tree_size', 1), tree_size')
  ELSE OutputFile(sst_count)

\* the words of every record of kv are in file f after the step
StoredIn(f, kv) ==
  /\ f \in DOMAIN disk'
  /\ \A i \in 1..Len(kv) :
       \E j \in 1..Len(disk'[f]) :
         disk'[f][j] = <<to_be_bytes(kv[i][1]), to_be_bytes(kv[i][2])>>

\* Client::close as a step
ClosesWell ==
  (lastOp'.op = "close" /\ panic = NoPanic) =>
    /\ panic' = NoPanic
    /\ memtable' = AVLTreeNew
    /\ IF memtable.size = 0
       THEN UNCHANGED <<disk, sst_count, tree_size, pool, filters>>
       ELSE StoredIn(NewestRun, scan_all_tree(memtable.root))

\* C24: close() flushes a non-empty memtable (afterwards the memtable is empty
\* and its records are in the backend's newest run); close() on an empty
\* memtable writes no file and changes no counter.
C24_CloseFlushes == [][ClosesWell]_vars

\* Client::open on the directory of a closed store, as a step
ReopensWell ==
  lastOp'.op = "open" =>
    /\ panic' = NoPanic
    /\ disk' = disk
    /\ \A k \in Keys :
         client_get(memtable', Storage', k).value = client_get(memtable, Storage, k).value

\* C25: flushed runs survive a restart: open on the directory of a closed store
\* succeeds with every backend and every get returns what it returned before.
C25_RunsSurviveRestart == [][ReopensWell]_vars

\* ----------------------------------------- specification: the Bloom filter
\* One Bitmap of 1..MaxBits bits under insert_key and check_key.  filters holds
\* the Bitmap, kv_arr the set of keys inserted so far.
FilterKeys == {I64_MIN, PadKey, 0, 1, I64_MAX}

FilterInit ==
  /\ filters \in {BitmapNew(size) : size \in 1..MaxBits}
  /\ kv_arr = {}
  /\ lastOp = NoOp
  /\ panic = NoPanic
  /\ memtable = AVLTreeNew
  /\ memtable_size = 1
  /\ storage_type = "none"
  /\ sst_count = 0
  /\ latest = <<>>
  /\ disk = EmptyDisk
  /\ pool = BufferPoolNew(0)
  /\ tree_size = 0
  /\ trace = <<>>
  /\ nops = 0

\* BloomFilter::insert_key
FilterInsert ==
  /\ \E key \in FilterKeys :
       /\ filters' = insert_key(filters, key)
       /\ kv_arr' = kv_arr \cup {key}
       /\ lastOp' = [op |-> "insert", key |-> key]
  /\ UNCHANGED <<disk, pool, memtable, memtable_size, storage_type, sst_count, tree_size,
                 panic, latest, trace, nops>>

\* BloomFilter::check_key
FilterCheck ==
  /\ \E key \in FilterKeys :
       lastOp' = [op |-> "check", key |-> key, result |-> check_key(filters, key)]
  /\ UNCHANGED <<disk, pool, memtable, memtable_size, storage_type, sst_count, tree_size,
                 filters, panic, latest, trace, kv_arr, nops>>

FilterNext == FilterInsert \/ FilterCheck

SpecFilter == FilterInit /\ [][FilterNext]_vars

\* C23: after insert(k) into a Bloom filter of size m >= 1, check(k) is true and
\* stays true after any further inserts; on a filter into which nothing was
\* inserted, check returns false for every key.
C23_NoFalseNegatives ==
  /\ lastOp.op = "insert" => check_key(filters, lastOp.key)
  /\ \A k \in kv_arr : check_key(filters, k)
  /\ (lastOp.op = "check" /\ lastOp.key \in kv_arr) => lastOp.result
  /\ (lastOp.op = "check" /\ kv_arr = {}) => ~lastOp.result

\* a key is found after two other keys were inserted, in a filter that still
\* has clear bits
C23_Witness ==
  /\ lastOp.op = "check" /\ lastOp.result /\ lastOp.key \in kv_arr
  /\ Cardinality(kv_arr) = 3 /\ Cardinality(filters.bits) < filters.size

\* ------------------------------------------------------------------------
\* The descent step on one internal page (btree.rs, search_b_tree_sst and
\* scan_b_tree_sst; part3btree.rs, part3_search_b_tree_sst)
\* ------------------------------------------------------------------------

\* internal pages as convert_sorted_arr_to_b_tree_arr_and_serialize lays them
\* out: n entries (2 <= n <= PAGE_SIZE), entry 0 repeating the key of entry 1,
\* keys strictly ascending from index 1, entry i pointing to page first + i
InternalPagesOf(n) ==
  {arr \in [1..n -> (I64_MIN..I64_MAX) \X (1..n)] :
     /\ arr[1][1] = arr[2][1]
     /\ \A i \in 1..n : arr[i][2] = i
     /\ \A i \in 2..(n - 1) : arr[i][1] < arr[i + 1][1]}

InternalPages == UNION {InternalPagesOf(n) : n \in 2..PAGE_SIZE}

PageInit ==
  /\ kv_arr \in InternalPages
  /\ lastOp = NoOp
  /\ panic = NoPanic
  /\ memtable = AVLTreeNew
  /\ memtable_size = 1
  /\ storage_type = "b_tree"
  /\ sst_count = 0
  /\ latest = <<>>
  /\ disk = EmptyDisk
  /\ pool = BufferPoolNew(0)
  /\ tree_size = 0
  /\ filters = <<>>
  /\ trace = <<>>
  /\ nops = 0

\* the internal-page case of the descent loop: the entry index followed for key
PageDescend ==
  /\ \E key \in I64_MIN..I64_MAX :
       lastOp' = [op |-> "descend", key |-> key,
                  result |-> unwrap_or(binary_search_internal_se_key(kv_arr, key), 0)]
  /\ UNCHANGED <<disk, pool, memtable, memtable_size, storage_type, sst_count, tree_size,
                 filters, panic, latest, trace, kv_arr, nops>>

PageNext == PageDescend

SpecPage == PageInit /\ [][PageNext]_vars

\* the entries (0-based, in 1..n-1) of the page arr whose key is <= key
EntriesAtMost(arr, key) == {i \in 1..(Len(arr) - 1) : arr[i + 1][1] <= key}

\* the greatest element of a non-empty set of naturals
Greatest(S) == CHOOSE i \in S : \A j \in S : j <= i

\* C26: on an internal page with n entries (2 <= n <= PAGE_SIZE, keys ascending
\* from index 1) and any target key, the descent follows the entry of greatest
\* index in 1..n-1 whose key is <= target, and entry 0 only when there is none.
C26_DescentFollowsGreatest ==
  lastOp.op = "descend" =>
    IF EntriesAtMost(kv_arr, lastOp.key) = {} THEN lastOp.result = 0
    ELSE lastOp.result = Greatest(EntriesAtMost(kv_arr, lastOp.key))

\* the part of C26 that holds: entry 0 is followed exactly when no entry of
\* 1..n-1 has key <= target, and the entry followed never has a key > target
C26_EntryZeroOnlyWhenNone ==
  lastOp.op = "descend" =>
    /\ (lastOp.result = 0) = (EntriesAtMost(kv_arr, lastOp.key) = {})
    /\ lastOp.result # 0 => lastOp.result \in EntriesAtMost(kv_arr, lastOp.key)

\* ------------------------------------------------------------------------
\* The early exit of scan_ssts and scan_b_tree_ssts against a scan of every run
\* ------------------------------------------------------------------------

RECURSIVE every_sst_from(_, _, _, _, _, _)
\* the loop of scan_ssts without its early exit: r is the outcome for sst_names[i]
every_sst_next(d, sst_names, i, start, end, r) ==
  IF r.panic # NoPanic THEN r
  ELSE every_sst_from(d, sst_names, i + 1, start, end, r.value)

\* the loop of scan_ssts over sst_names from position i, every run consulted
every_sst_from(d, sst_names, i, start, end, kv_hash) ==
  IF i > Len(sst_names) THEN Ret(kv_hash)
  ELSE IF sst_names[i] \notin DOMAIN d THEN Panicked("Metadata call failed!")
  ELSE every_sst_next(d, sst_names, i, start, end,
         scan_ssts_file(d, sst_names[i], start, end, kv_hash,
           binary_search_sst_start_index(d, sst_names[i], total_pages_of(d, sst_names[i]),
                                         start, end)))

RECURSIVE every_b_tree_sst_from(_, _, _, _, _, _, _)
\* the loop of scan_b_tree_ssts without its early exit
every_b_tree_sst_next(d, sst_names, i, start, end, r) ==
  IF r.pool.panic # NoPanic THEN r
  ELSE every_b_tree_sst_from(r.pool, d, sst_names, i + 1, start, end, r.value)

\* the loop of scan_b_tree_ssts over sst_names from position i, every run consulted
every_b_tree_sst_from(p, d, sst_names, i, start, end, kv_hash) ==
  IF i > Len(sst_names) THEN PoolRet(p, kv_hash)
  ELSE IF sst_names[i] \notin DOMAIN d THEN PoolRet(Fail(p, "Metadata call failed!"), kv_hash)
  ELSE every_b_tree_sst_next(d, sst_names, i, start, end,
         scan_b_tree_sst(p, d, sst_names[i], start, end, kv_hash,
                         total_pages_of(d, sst_names[i])))

\* Client::scan with every run consulted (append-only and B-tree backends)
scan_every_run(mt, S, start, end, hash) ==
  IF S.storage_type = "append_only_log"
  THEN with_pool(S.pool, every_sst_from(S.disk, get_sst_names(S.disk), 1, start, end, hash))
  ELSE every_b_tree_sst_from(S.pool, S.disk, get_sst_names(S.disk), 1, start, end, hash)

\* the outcome r of the scan of every run agrees with the scan that just returned
SameAsEveryRun(r) ==
  r.pool.panic = NoPanic => lastOp'.result = collect_live(r.value)

\* a scan step with start <= end that returned, append-only or B-tree backend,
\* returned what the scan of every run returns from the same state
EarlyExitHarmless ==
  (FileBackend /\ lastOp'.op = "scan" /\ lastOp'.panic = NoPanic)
  => (lastOp'.start <= lastOp'.end
      => SameAsEveryRun(scan_every_run(memtable, Storage, lastOp'.start, lastOp'.end,
                          scan_tree(memtable.root, lastOp'.start, lastOp'.end, <<>>))))

\* C27: in the append-only and B-tree backends the early exit taken when the
\* result map holds end - start entries never changes the result: for every
\* state and every start <= end the scan returns the same set as a scan that
\* consults every run.
C27_EarlyExitHarmless == [][EarlyExitHarmless]_vars

\* ------------------------------------------------------------------------
\* specification: the range scan of a single sorted run, in its three forms
\* (append-only file, B-tree file, LSM leaf/internal pair)
\* ------------------------------------------------------------------------

RunKeys == (-4)..4
ScanBounds == (-5)..5

\* the strictly ascending record vector over the key set K, every value 1
RECURSIVE RunOf(_)
RunOf(K) ==
  IF K = {} THEN <<>>
  ELSE Append(RunOf(K \ {Greatest(K)}), <<Greatest(K), 1>>)

\* the maps a scan starts from: empty, or holding a tombstone of key 0 that
\* the memtable put there
RunMaps == {<<>>, [k \in {0} |-> I64_MIN]}

\* the runs of up to MaxLeaves leaf pages: n consecutive keys from first on
LongRuns ==
  {RunOf(first..(first + n - 1)) :
     n \in (MaxRecs + 1)..Min(MaxLeaves * ENTRIES, I64_MAX - I64_MIN),
     first \in I64_MIN..(I64_MIN + 1)}

RunInit ==
  /\ storage_type \in StorageTypes
  /\ kv_arr \in {RunOf(K) : K \in {X \in SUBSET RunKeys : Cardinality(X) \in 1..MaxRecs}}
                 \cup LongRuns
  /\ memtable_size = 1
  /\ pool = BufferPoolNew(IF storage_type = "append_only_log" THEN 0 ELSE MaxCap)
  /\ disk = EmptyDisk
  /\ memtable = AVLTreeNew
  /\ sst_count = 0
  /\ tree_size = 0
  /\ filters = [i \in 0..50 |-> None]
  /\ panic = NoPanic
  /\ lastOp = NoOp
  /\ latest = <<>>
  /\ trace = <<>>
  /\ nops = 0

\* Client::flush of a memtable holding kv_arr: the run is written
RunFlush ==
  /\ sst_count = 0
  /\ StorageBecomes(storage_flush(Storage, sst_count, kv_arr))
  /\ sst_count' = sst_count + 1
  /\ lastOp' = [op |-> "flush"]
  /\ UNCHANGED <<memtable, memtable_size, storage_type, latest, trace, kv_arr, nops>>

\* the scan of the run returned: pos is the start position found (append-only
\* form), r the map after the walk
RunScanned(start, end, hash, pos, r) ==
  /\ pool' = r.pool
  /\ panic' = r.pool.panic
  /\ lastOp' = [op |-> "scan_run", start |-> start, end |-> end, hash |-> hash,
                pos |-> pos, result |-> r.value, panic |-> r.pool.panic]

\* scan_ssts, the loop body for the run: binary_search_sst_start_index returned pos
RunScanFileFrom(start, end, hash, pos) ==
  RunScanned(start, end, hash, pos.value,
             with_pool(pool, scan_ssts_file(disk, OutputFile(0), start, end, hash, pos)))

\* the scan of the one run with start <= end into the map hash
RunScan ==
  /\ sst_count = 1 /\ panic = NoPanic /\ nops = 0
  /\ \E start \in ScanBounds, end \in ScanBounds, hash \in RunMaps :
       /\ start <= end
       /\ CASE storage_type = "append_only_log" ->
                 RunScanFileFrom(start, end, hash,
                   binary_search_sst_start_index(disk, OutputFile(0),
                     total_pages_of(disk, OutputFile(0)), start, end))
            [] storage_type = "b_tree" ->
                 RunScanned(start, end, hash, None,
                   scan_b_tree_sst(pool, disk, OutputFile(0), start, end, hash,
                                   total_pages_of(disk, OutputFile(0))))
            [] storage_type = "lsm_tree" ->
                 RunScanned(start, end, hash, None,
                   part3_scan_b_tree_sst(pool, disk, LeafFile(1, 1), InternalFile(1, 1),
                                         start, end, hash))
  /\ nops' = nops + 1
  /\ UNCHANGED <<disk, memtable, memtable_size, storage_type, sst_count, tree_size, filters,
                 latest, trace, kv_arr>>

RunNext == RunFlush \/ RunScan

SpecRun == RunInit /\ [][RunNext]_vars

\* the positions (1-based) of the records of arr with start <= key <= end
InRange(arr, start, end) == {i \in 1..Len(arr) : start <= arr[i][1] /\ arr[i][1] <= end}

\* the position (1-based) of the first record of arr with key >= start
FirstAtLeast(arr, start) ==
  CHOOSE i \in 1..Len(arr) :
    arr[i][1] >= start /\ \A j \in 1..(i - 1) : arr[j][1] < start

\* the map hash after exactly the records at the positions I of arr that are
\* not yet in it were inserted
WithRecords(hash, arr, I) ==
  [k \in DOMAIN hash \cup {arr[i][1] : i \in I} |->
     IF k \in DOMAIN hash THEN hash[k]
     ELSE arr[CHOOSE i \in I : arr[i][1] = k][2]]

\* C28: in the append-only backend, for every sorted multi-page run and every
\* start <= end, the start-position search returns the (page, index) of the
\* first record with key >= start whenever the run holds a record in
\* [start, end], and the forward walk inserts exactly the records of the run
\* in [start, end] that are not yet in the map.
C28_StartPositionAndWalk ==
  (storage_type = "append_only_log" /\ lastOp.op = "scan_run" /\ Len(kv_arr) > PAGE_SIZE)
  => /\ lastOp.panic = NoPanic
     /\ InRange(kv_arr, lastOp.start, lastOp.end) # {}
        => lastOp.pos = << Some((FirstAtLeast(kv_arr, lastOp.start) - 1) \div PAGE_SIZE),
                           Some((FirstAtLeast(kv_arr, lastOp.start) - 1) % PAGE_SIZE) >>
     /\ lastOp.result = WithRecords(lastOp.hash, kv_arr,
                                    InRange(kv_arr, lastOp.start, lastOp.end))

\* the part of C28 that holds: when start is not in a gap between two pages
\* (it is at most the first key of the run, or some page has first key <=
\* start <= last key), position and walk are as C28 says
StartInsideAPage(arr, start) ==
  \/ start <= arr[1][1]
  \/ \E p \in 0..((Len(arr) - 1) \div PAGE_SIZE) :
       /\ arr[p * PAGE_SIZE + 1][1] <= start
       /\ start <= arr[Min((p + 1) * PAGE_SIZE, Len(arr))][1]

C28_HoldsOutsideGaps ==
  (storage_type = "append_only_log" /\ lastOp.op = "scan_run" /\ Len(kv_arr) > PAGE_SIZE
     /\ StartInsideAPage(kv_arr, lastOp.start))
  => /\ lastOp.panic = NoPanic
     /\ InRange(kv_arr, lastOp.start, lastOp.end) # {}
        => lastOp.pos = << Some((FirstAtLeast(kv_arr, lastOp.start) - 1) \div PAGE_SIZE),
                           Some((FirstAtLeast(kv_arr, lastOp.start) - 1) % PAGE_SIZE) >>
     /\ lastOp.result = WithRecords(lastOp.hash, kv_arr,
                                    InRange(kv_arr, lastOp.start, lastOp.end))

\* C29: a B-tree range scan of a single run, in the single-file form and in the
\* LSM leaf/internal pair form, into an empty map inserts exactly the records
\* of the run with start <= key <= end, also when start is greater than every
\* key of the leaf reached by the descent while later leaves hold records
\* >= start.
C29_BTreeRunScanExact ==
  (storage_type \in {"b_tree", "lsm_tree"} /\ lastOp.op = "scan_run" /\ lastOp.hash = <<>>)
  => /\ lastOp.panic = NoPanic
     /\ lastOp.result = WithRecords(<<>>, kv_arr, InRange(kv_arr, lastOp.start, lastOp.end))

\* ------------------------------------------------------------------------
\* The tree written for the run kv_arr: in the single-file form the pages of
\* output_0.bin, in the LSM form the pages of the internal file followed by
\* the pages of the leaf file (a pointer p >= the number of internal pages is
\* leaf page p - internal pages, part3btree.rs:166)
\* ------------------------------------------------------------------------
TreeLeaves == (Len(kv_arr) + ENTRIES - 1) \div ENTRIES

TreeInternals ==
  IF storage_type = "lsm_tree" THEN total_pages_of(disk, InternalFile(1, 1))
  ELSE total_pages_of(disk, OutputFile(0)) - TreeLeaves

TreePage(p) ==
  IF storage_type = "b_tree" THEN deserialize_page(disk, OutputFile(0), p * PAGE_SIZE).arr
  ELSE IF p < TreeInternals THEN deserialize_page(disk, InternalFile(1, 1), p * PAGE_SIZE).arr
  ELSE deserialize_page(disk, LeafFile(1, 1), (p - TreeInternals) * PAGE_SIZE).arr

\* the page indices the entries of an internal page point to, in entry order
Pointers(arr) == [i \in 1..Len(arr) |-> arr[i][2]]

\* the pointers of the internal pages p, p+1, .. in page order
RECURSIVE PointersFrom(_)
PointersFrom(p) ==
  IF p >= TreeInternals THEN <<>> ELSE Pointers(TreePage(p)) \o PointersFrom(p + 1)

\* the smallest key stored in the subtree of page p
RECURSIVE SmallestKey(_)
SmallestKey(p) ==
  IF p >= TreeInternals THEN TreePage(p)[1][1] ELSE SmallestKey(TreePage(p)[1][2])

\* the number of internal pages between page p and the leaves below it
RECURSIVE Depth(_)
Depth(p) == IF p >= TreeInternals THEN 0 ELSE 1 + Depth(TreePage(p)[1][2])

WellFormedInternal(p, arr) ==
  /\ Len(arr) >= 2 /\ Len(arr) <= ENTRIES
  /\ arr[1][1] = arr[2][1]
  /\ \A i \in 1..(Len(arr) - 1) : arr[i + 1][2] = arr[i][2] + 1
  /\ \A i \in 2..Len(arr) : arr[i][1] = SmallestKey(arr[i][2])
  /\ \A i \in 1..Len(arr) : Depth(arr[i][2]) = Depth(arr[1][2])

WellFormedTree ==
  /\ TreeInternals >= 0
  /\ TreeLeaves = 1 <=> TreeInternals = 0
  /\ \A j \in 0..(TreeLeaves - 1) :
       TreePage(TreeInternals + j) =
         SubSeq(kv_arr, j * ENTRIES + 1, Min((j + 1) * ENTRIES, Len(kv_arr)))
  /\ PointersFrom(0) = [i \in 1..(TreeInternals + TreeLeaves - 1) |-> i]
  /\ \A p \in 0..(TreeInternals - 1) : WellFormedInternal(p, TreePage(p))
  /\ \A p \in 0..(TreeInternals - 2) : Depth(p) >= Depth(p + 1)

\* C30: for every number of leaf pages L >= 1 the construction yields a
\* well-formed tree: the internal pages come root first, level by level,
\* followed by the leaves in order; every internal page has between 2 and
\* ENTRIES entries, entry 0 and entry 1 with the same key; every page but the
\* root is the child of exactly one entry and consecutive entries point to
\* consecutive pages (the pointers in page order are 1, 2, .., pages - 1); the
\* key of every entry i >= 1 is the smallest key of the subtree it points to.
C30_TreeWellFormed ==
  (storage_type \in {"b_tree", "lsm_tree"} /\ sst_count = 1) => WellFormedTree

\* a run of five or more leaf pages was written in the LSM form: the root, a
\* second level of two internal pages with different numbers of entries, the
\* leaves
C30_Witness ==
  /\ storage_type = "lsm_tree" /\ sst_count = 1 /\ lastOp.op = "flush"
  /\ TreeLeaves >= 4 /\ TreeInternals = 3 /\ Depth(0) = 2
  /\ Len(TreePage(1)) # Len(TreePage(2))

\* ------------------------------------------------------------------------
\* specification: one LSM merge.  Two runs, the older A = kv_arr[1] and the
\* newer B = kv_arr[2], are flushed one after the other; the second flush
\* (tree_size = 2) merges them at level 1 into output_leaf_2_2.bin.
\* ------------------------------------------------------------------------
MergeKeys == (-3)..3

\* the strictly ascending run over the key set K, every value v
RECURSIVE RunWith(_, _)
RunWith(K, v) ==
  IF K = {} THEN <<>>
  ELSE Append(RunWith(K \ {Greatest(K)}, v), <<Greatest(K), v>>)

MergeInit ==
  /\ storage_type = "lsm_tree"
  /\ kv_arr \in {<<RunWith(A, 1), RunWith(B, 2)>> :
                   A \in (SUBSET MergeKeys) \ {{}}, B \in (SUBSET MergeKeys) \ {{}}}
  /\ memtable_size = 1
  /\ pool = BufferPoolNew(MaxCap)
  /\ disk = EmptyDisk
  /\ memtable = AVLTreeNew
  /\ sst_count = 0
  /\ tree_size = 0
  /\ filters = [i \in 0..50 |-> None]
  /\ panic = NoPanic
  /\ lastOp = NoOp
  /\ latest = <<>>
  /\ trace = <<>>
  /\ nops = 0

\* Client::flush of the next run; the second one ends in merge_ssts(1)
MergeFlush ==
  /\ sst_count < 2 /\ panic = NoPanic
  /\ StorageBecomes(storage_flush(Storage, sst_count, kv_arr[sst_count + 1]))
  /\ sst_count' = sst_count + 1
  /\ lastOp' = [op |-> "flush", len |-> Len(kv_arr[sst_count + 1])]
  /\ UNCHANGED <<memtable, memtable_size, storage_type, latest, trace, kv_arr, nops>>

MergeNext == MergeFlush

SpecMerge == MergeInit /\ [][MergeNext]_vars

\* the keys of a run
RunKeySet(arr) == {arr[i][1] : i \in 1..Len(arr)}

\* the value a run stores for one of its keys
RunValue(arr, k) == arr[CHOOSE i \in 1..Len(arr) : arr[i][1] = k][2]

\* one record per key of A union B in ascending key order, B's value for a
\* key of both
RECURSIVE MergedOver(_, _, _)
MergedOver(K, A, B) ==
  IF K = {} THEN <<>>
  ELSE Append(MergedOver(K \ {Greatest(K)}, A, B),
              <<Greatest(K), IF Greatest(K) \in RunKeySet(B) THEN RunValue(B, Greatest(K))
                             ELSE RunValue(A, Greatest(K))>>)

Merged(A, B) == MergedOver(RunKeySet(A) \cup RunKeySet(B), A, B)

\* the file image is the records of arr, ENTRIES to a page, the last page
\* filled up with padding blocks
HoldsPaged(file, arr) ==
  /\ Len(file) = ((Len(arr) + ENTRIES - 1) \div ENTRIES) * PAGE_SIZE
  /\ \A i \in 1..Len(arr) : file[i] = <<to_be_bytes(arr[i][1]), to_be_bytes(arr[i][2])>>
  /\ \A i \in (Len(arr) + 1)..Len(file) : file[i] = padding

\* C31: the merge of an older run A and a newer run B, each sorted with unique
\* keys and of any page counts, writes an output leaf file holding, in strictly
\* ascending key order, exactly one record per key of A union B with B's value
\* for keys of both; every output page but the last holds ENTRIES records; no
\* record is lost when one input ends before the other or both end together.
C31_MergeOutput ==
  (storage_type = "lsm_tree" /\ sst_count = 2 /\ Len(kv_arr) = 2) =>
    /\ LeafFile(2, 2) \in DOMAIN disk
    /\ HoldsPaged(disk[LeafFile(2, 2)], Merged(kv_arr[1], kv_arr[2]))

\* two multi-page runs sharing some keys, the older ending on the greater key, were merged
\* into a run of three pages and the flush returned
C31_Witness ==
  /\ storage_type = "lsm_tree" /\ sst_count = 2 /\ panic = NoPanic
  /\ Len(kv_arr) = 2 /\ Len(kv_arr[1]) > ENTRIES /\ Len(kv_arr[2]) > ENTRIES
  /\ RunKeySet(kv_arr[1]) \cap RunKeySet(kv_arr[2]) # {}
  /\ kv_arr[1][Len(kv_arr[1])][1] > kv_arr[2][Len(kv_arr[2])][1]
  /\ Len(disk[LeafFile(2, 2)]) = 3 * PAGE_SIZE

\* ------------------------------------------------------------------------
\* The cascade of one LSM flush, merge by merge
\* ------------------------------------------------------------------------

\* the number of trailing zero bits of K >= 1
RECURSIVE TrailingZeros(_)
TrailingZeros(K) == IF K % 2 = 1 THEN 0 ELSE 1 + TrailingZeros(K \div 2)

\* LSMTree::flush up to "merge ssts if necessary": the tree with the new
\* level-1 run, its internal file (cr is part3_create_b_tree_internal_file's
\* outcome) and its filter
FlushWrittenWith(t, contents, cr) ==
  [t EXCEPT !.disk = cr.disk,
            !.filters = [@ EXCEPT ![1] =
               Some(insert_keys(BitmapNew(10 * Len(contents)), contents, 1))]]

FlushWritten(t, contents) ==
  FlushWrittenWith([t EXCEPT !.tree_size = @ + 1], contents,
    part3_create_b_tree_internal_file(
      serialize_kv_to_file(t.disk, LeafFile(1, t.tree_size + 1), contents),
      LeafFile(1, t.tree_size + 1), InternalFile(1, t.tree_size + 1)))

\* the tree after the merges at levels L, L+1, .., L+n-1, in that order
RECURSIVE MergesFrom(_, _, _)
MergesFrom(t, L, n) == IF n = 0 THEN t ELSE MergesFrom(merge_ssts(t, L), L + 1, n - 1)

\* the two runs a merge at level L takes exist in t: R = tree_size - 2^(L-1)
\* (older) and R = tree_size (newer)
InputsExist(t, L) ==
  /\ t.tree_size - 2 ^ (L - 1) >= 1
  /\ {LeafFile(L, t.tree_size - 2 ^ (L - 1)), InternalFile(L, t.tree_size - 2 ^ (L - 1)),
      LeafFile(L, t.tree_size), InternalFile(L, t.tree_size)} \subseteq DOMAIN t.disk

\* the outcome S of the flush of contents is that of exactly n merges after the
\* write W, at levels 1..n with existing inputs, each writing a new run at
\* level L+1 named R = tree_size
CascadeIs(S, W, n) ==
  /\ S = MergesFrom(W, 1, n)
  /\ \A L \in 1..n :
       /\ InputsExist(MergesFrom(W, 1, L - 1), L)
       /\ LeafFile(L + 1, W.tree_size) \in DOMAIN MergesFrom(W, 1, L).disk
       /\ LeafFile(L + 1, W.tree_size) \notin DOMAIN MergesFrom(W, 1, L - 1).disk

\* a flush step of the LSM backend that returned
FlushCascades ==
  (storage_type = "lsm_tree" /\ lastOp'.op = "flush" /\ panic' = NoPanic)
  => \E n \in {memtable_size, memtable_size + 1}, first \in {I64_MIN, I64_MIN + 1} :
       CascadeIs(Storage', FlushWritten(Storage, SortedRun(n, first, sst_count + 1)),
                 TrailingZeros(tree_size + 1))

\* C32: the K-th LSM flush performs exactly as many merges as K has trailing
\* zero bits, at levels 1, 2, .. in that order, and then stops; the merge at
\* level L takes the runs R = tree_size - 2^(L-1) (older) and R = tree_size
\* (newer), which both exist at that moment, and writes its output at level
\* L+1 with R = tree_size.
C32_FlushCascade == [][FlushCascades]_vars

\* the fourth flush returned: two merges, the run of level 3 is the only one
C32_Witness ==
  /\ storage_type = "lsm_tree" /\ panic = NoPanic /\ lastOp.op = "flush"
  /\ tree_size = 4 /\ TrailingZeros(tree_size) = 2
  /\ {f \in DOMAIN disk : f.kind = "leaf"} = {LeafFile(3, 4)}

\* ------------------------------------------------------------------------
\* The age of the runs of the LSM levels.  In SpecLsm the value of a record is
\* the number of the flush (memtable drain) that wrote it.
\* ------------------------------------------------------------------------

\* the records in pages page_idx.. of file f, as a set
RECURSIVE RecordSetFrom(_, _)
RecordSetFrom(f, page_idx) ==
  IF page_idx >= total_pages_of(disk, f) THEN {}
  ELSE {deserialize_page(disk, f, page_idx * PAGE_SIZE).arr[i] :
          i \in 1..Len(deserialize_page(disk, f, page_idx * PAGE_SIZE).arr)}
       \cup RecordSetFrom(f, page_idx + 1)

\* every record of the run of a smaller level comes from a later drain than
\* every record of the run of a greater level
LevelsOrdered ==
  \A f \in DOMAIN disk, g \in DOMAIN disk :
    (f.kind = "leaf" /\ g.kind = "leaf" /\ f.level < g.level) =>
      \A r \in RecordSetFrom(f, 0), q \in RecordSetFrom(g, 0) : r[2] > q[2]

\* C33: in the LSM backend smaller levels hold newer data: between flushes, for
\* present levels L1 < L2 every record of level L1's run comes from a more
\* recent drain than every record of level L2's run, so that probing the levels
\* in increasing order and taking the first hit yields the newest value of
\* each key (the number of the last flush that wrote it, absent if none did).
C33_SmallerLevelsNewer ==
  storage_type = "lsm_tree" =>
    /\ panic = NoPanic => LevelsOrdered
    /\ lastOp.op = "get" =>
         /\ lastOp.panic = NoPanic
         /\ lastOp.result = Expected(lastOp.key)

\* the part of C33 that holds: the order of the levels in every state, and the
\* newest value from every get on runs of two leaf pages
C33_LevelsOrdered ==
  storage_type = "lsm_tree" =>
    /\ panic = NoPanic => LevelsOrdered
    /\ (lastOp.op = "get" /\ memtable_size > ENTRIES) =>
         /\ lastOp.panic = NoPanic
         /\ lastOp.result = Expected(lastOp.key)

\* ------------------------------------------------------------------------
\* LSMTree::get as the spec words it: each present level is short-circuited
\* by the filter stored for that level
\* ------------------------------------------------------------------------

\* the filter stored for level i reports a certain miss of key
own_filter_rejects(t, i, key) ==
  IF t.filters[i] = None THEN FALSE ELSE ~check_key(t.filters[i][1], key)

RECURSIVE own_filter_get_from(_, _, _)
\* the loop body after the search of level i returned r
own_filter_get_found(t, i, key, r) ==
  IF r.pool.panic # NoPanic \/ r.value # None THEN r
  ELSE own_filter_get_from([t EXCEPT !.pool = r.pool], i + 1, key)

\* the loop over the levels from i: level i is searched iff it is present and
\* its own filter reports check(key) = true
own_filter_get_from(t, i, key) ==
  IF i > ilog2(t.tree_size) + 1 THEN PoolRet(t.pool, None)
  ELSE IF bit_clear(t.tree_size, i) \/ own_filter_rejects(t, i, key)
  THEN own_filter_get_from(t, i + 1, key)
  ELSE own_filter_get_found(t, i, key,
         part3_search_b_tree_sst(t.pool, t.disk, LeafFile(i, run_of_level(t.tree_size, i)),
                                 InternalFile(i, run_of_level(t.tree_size, i)), key))

own_filter_get(t, key) ==
  IF t.tree_size = 0 THEN PoolRet(t.pool, None) ELSE own_filter_get_from(t, 1, key)

\* the get that just returned read the pages (left the cache as) and returned
\* the value of the outcome e
GetWas(e) == pool' = e.pool /\ lastOp'.result = e.value

\* a get step of the LSM backend searches exactly the levels whose own filter
\* reports true
GetUsesOwnFilters ==
  (storage_type = "lsm_tree" /\ lastOp'.op = "get")
  => GetWas(own_filter_get(Storage, lastOp'.key))

\* C34: LSM get consults, for each present level L, the Bloom filter stored for
\* level L: the run of level L is searched if and only if that filter reports
\* check(key) = true, and is skipped when it reports a certain miss.
C34_GetUsesOwnFilters == [][GetUsesOwnFilters]_vars

\* the part of C34 that holds: a level whose own filter reports true is searched
\* (the filter consulted, slot 0, is never populated, so no level is skipped)
GetSearchesAccepted ==
  (storage_type = "lsm_tree" /\ lastOp'.op = "get"
     /\ \A i \in 1..50 : ~own_filter_rejects(Storage, i, lastOp'.key))
  => GetWas(own_filter_get(Storage, lastOp'.key))

C34_AcceptedLevelsSearched == [][GetSearchesAccepted]_vars

\* the greatest level a tree of tree_size flushes holds
TopLevel == IF tree_size = 0 THEN 0 ELSE ilog2(tree_size) + 1

\* the run of level L: its leaf file
RunFile(L) == LeafFile(L, run_of_level(tree_size, L))

\* C35: after every LSM flush (cascaded merges included) the filter slot of
\* level L holds a Bloom filter if and only if level L is present (bit L-1 of
\* tree_size set), that filter answers check(k) = true for every key stored in
\* the run of level L, and the slot index stays within the 51 slots.
C35_FiltersFollowLevels ==
  (storage_type = "lsm_tree" /\ panic = NoPanic) =>
    /\ DOMAIN filters = 0..50 /\ TopLevel <= 50
    /\ \A L \in 1..50 : (filters[L] # None) <=> (L <= TopLevel /\ BitSet(tree_size, L))
    /\ \A L \in 1..TopLevel :
         BitSet(tree_size, L) =>
           /\ RunFile(L) \in DOMAIN disk
           /\ \A r \in RecordSetFrom(RunFile(L), 0) : check_key(filters[L][1], r[1])

\* the third flush returned: levels 1 and 2 are present, each with its filter,
\* and the filter of level 2 (built by a merge) does not accept every key
C35_Witness ==
  /\ storage_type = "lsm_tree" /\ panic = NoPanic /\ lastOp.op = "flush"
  /\ tree_size = 3 /\ filters[1] # None /\ filters[2] # None /\ filters[3] = None
  /\ \E k \in I64_MIN..I64_MAX : ~check_key(filters[2][1], k)

\* ------------------------------------------------------------------------
\* specification: serialization with a second serialize call on the same path
\* ------------------------------------------------------------------------
AppendVecs == UNION {[1..n -> {<<0, 1>>}] : n \in 0..(ENTRIES + 1)}

\* serialize_kv_to_file on the path that exists already: the pages of arr are
\* appended
SerdeAppend ==
  /\ OutputFile(0) \in DOMAIN disk /\ nops = 0
  /\ \E arr \in AppendVecs :
       /\ disk' = serialize_kv_to_file(disk, OutputFile(0), arr)
       /\ lastOp' = [op |-> "append", before |-> disk[OutputFile(0)], arr |-> arr]
  /\ nops' = nops + 1
  /\ UNCHANGED <<pool, memtable, memtable_size, storage_type, sst_count, tree_size,
                 filters, panic, latest, trace, kv_arr>>

AppendNext == SerdeSerialize \/ SerdeDeserialize \/ SerdeAppend

SpecAppend == SerdeInit /\ [][AppendNext]_vars

\* the blocks of file after the first n
Rest(file, n) == SubSeq(file, n + 1, Len(file))

\* C36: a file written by serialization is a whole number of pages: n records
\* give exactly ceil(n / ENTRIES) pages, every page but the last holds ENTRIES
\* records, the tail of the last page is padding blocks, and a further
\* serialize call on the same path appends its pages after the existing ones.
C36_WholePages ==
  /\ (lastOp.op = "serialize_kv_to_file" \/ (lastOp.op = "deserialize_page" /\ nops = 0))
       => HoldsPaged(disk[OutputFile(0)], kv_arr)
  /\ lastOp.op = "append" =>
       /\ Len(disk[OutputFile(0)]) >= Len(lastOp.before)
       /\ SubSeq(disk[OutputFile(0)], 1, Len(lastOp.before)) = lastOp.before
       /\ HoldsPaged(Rest(disk[OutputFile(0)], Len(lastOp.before)), lastOp.arr)
  /\ \A f \in DOMAIN disk : Len(disk[f]) % PAGE_SIZE = 0

\* a vector of more than one page that ends on a page boundary was written, and a
\* partly filled page was appended after it
C36_Witness ==
  /\ lastOp.op = "append" /\ Len(kv_arr) = 2 * ENTRIES /\ Len(lastOp.before) = 2 * PAGE_SIZE
  /\ Len(lastOp.arr) = 1 /\ Len(disk[OutputFile(0)]) = 3 * PAGE_SIZE
  /\ disk[OutputFile(0)][3 * PAGE_SIZE] = padding

\* ------------------------------------------- serde.rs, the per-run point lookup
\* the run arr with the record of key PadKey, if any, carrying the value PadKey
WithPaddingRecord(arr) ==
  [i \in 1..Len(arr) |-> IF arr[i][1] = PadKey THEN <<PadKey, PadKey>> ELSE arr[i]]

\* the append-only store before the flush of one sorted run; the values are 1,
\* or PadKey for the key PadKey
LookupInit ==
  /\ storage_type = "append_only_log"
  /\ kv_arr \in {RunOf(K) : K \in {X \in SUBSET RunKeys : Cardinality(X) \in 1..MaxRecs}}
                 \cup LongRuns \cup {WithPaddingRecord(r) : r \in LongRuns}
  /\ memtable_size = 1
  /\ pool = BufferPoolNew(0)
  /\ disk = EmptyDisk
  /\ memtable = AVLTreeNew
  /\ sst_count = 0
  /\ tree_size = 0
  /\ filters = [i \in 0..50 |-> None]
  /\ panic = NoPanic
  /\ lastOp = NoOp
  /\ latest = <<>>
  /\ trace = <<>>
  /\ nops = 0

\* get_value_ssts, the loop body for the one run: binary_search_file returned r
RunLookedUp(key, r) ==
  /\ panic' = r.panic
  /\ lastOp' = [op |-> "lookup", key |-> key, result |-> r.value, panic |-> r.panic]

\* the point lookup of key in the one run
RunLookup ==
  /\ sst_count = 1 /\ panic = NoPanic /\ nops = 0
  /\ \E key \in ScanBounds :
       RunLookedUp(key, binary_search_file(disk, OutputFile(0),
                                           total_pages_of(disk, OutputFile(0)), key))
  /\ nops' = nops + 1
  /\ UNCHANGED <<disk, pool, memtable, memtable_size, storage_type, sst_count, tree_size,
                 filters, latest, trace, kv_arr>>

LookupNext == RunFlush \/ RunLookup

SpecLookup == LookupInit /\ [][LookupNext]_vars

\* C37: the append-only per-run point lookup returns, for every sorted
\* multi-page run, the stored value of every key in the run and absent for
\* every key not in it (keys below the first key, above the last key and
\* between two pages included), without a fatal error.
C37_LookupExact ==
  (lastOp.op = "lookup" /\ Len(kv_arr) > PAGE_SIZE)
  => /\ lastOp.panic = NoPanic
     /\ lastOp.result = IF lastOp.key \in RunKeySet(kv_arr)
                        THEN Some(RunValue(kv_arr, lastOp.key)) ELSE None

\* the part of C37 that holds: the lookup is exact in every run that holds no
\* record equal to the padding block
C37_ExactWithoutPaddingRecord ==
  (lastOp.op = "lookup" /\ Len(kv_arr) > PAGE_SIZE
     /\ \A i \in 1..Len(kv_arr) : kv_arr[i] # <<PadKey, PadKey>>)
  => /\ lastOp.panic = NoPanic
     /\ lastOp.result = IF lastOp.key \in RunKeySet(kv_arr)
                        THEN Some(RunValue(kv_arr, lastOp.key)) ELSE None

\* ------------------------------------ btree.rs, part3btree.rs: the descent
\* the descent stops at page p: a page that is not an internal node page
\* (btree.rs:146), at or past the internal pages (part3btree.rs:106), or
\* outside the run
StopsAt(p) ==
  \/ p < 0 \/ p >= TreeInternals + TreeLeaves
  \/ IF storage_type = "b_tree" THEN ~is_internal_page(TreePage(p)) ELSE p >= TreeInternals

\* the page indices a descent for key visits from page p on, at most n steps
RECURSIVE DescentFrom(_, _, _)
DescentFrom(key, p, n) ==
  IF n = 0 \/ StopsAt(p) THEN <<p>>
  ELSE <<p>> \o DescentFrom(key,
         TreePage(p)[unwrap_or(binary_search_internal_se_key(TreePage(p), key), 0) + 1][2],
         n - 1)

DescentInit == RunInit /\ storage_type \in {"b_tree", "lsm_tree"}

\* the point get of key in the one run returned r
RunDescended(key, r) ==
  /\ pool' = r.pool
  /\ panic' = r.pool.panic
  /\ lastOp' = [op |-> "descend", key |-> key, result |-> r.value, panic |-> r.pool.panic,
                path |-> DescentFrom(key, 0, TreeInternals + TreeLeaves + 1)]

\* get_b_tree_ssts / LSMTree::get, the search of the one run for key
RunDescend ==
  /\ sst_count = 1 /\ panic = NoPanic /\ nops = 0
  /\ \E key \in ScanBounds :
       IF storage_type = "b_tree"
       THEN RunDescended(key, search_b_tree_sst(pool, disk, OutputFile(0), key))
       ELSE RunDescended(key, part3_search_b_tree_sst(pool, disk, LeafFile(1, 1),
                                                      InternalFile(1, 1), key))
  /\ nops' = nops + 1
  /\ UNCHANGED <<disk, memtable, memtable_size, storage_type, sst_count, tree_size, filters,
                 latest, trace, kv_arr>>

DescentNext == RunFlush \/ RunDescend

SpecDescent == DescentInit /\ [][DescentNext]_vars

\* the pages of path are visited in strictly increasing index order, all lie
\* inside the run, and the last one is a leaf page
DescentReachesLeaf(path) ==
  /\ \A i \in 1..(Len(path) - 1) : path[i] < path[i + 1]
  /\ \A i \in 1..Len(path) : path[i] >= 0 /\ path[i] < TreeInternals + TreeLeaves
  /\ path[Len(path)] >= TreeInternals

\* C38: every B-tree descent, in the single-file and in the leaf/internal pair
\* form, terminates at a leaf page inside the file: each child page index read
\* from an internal page is strictly greater than the index of the page it was
\* read from and smaller than the total number of pages of the run.
C38_DescentReachesLeaf ==
  lastOp.op = "descend"
  => /\ lastOp.panic = NoPanic
     /\ DescentReachesLeaf(lastOp.path)

\* the part of C38 that holds: every descent that returns visits pages of
\* strictly increasing index inside the run and ends at a leaf page
C38_ReturningDescentReachesLeaf ==
  (lastOp.op = "descend" /\ lastOp.panic = NoPanic) => DescentReachesLeaf(lastOp.path)

\* the descents that end in a fatal error are those of the pair form on a run
\* of a single leaf page
C38_FatalOnlyWithoutInternalFile ==
  (lastOp.op = "descend" /\ lastOp.panic # NoPanic)
  => storage_type = "lsm_tree" /\ TreeLeaves = 1 /\ lastOp.panic = "Metadata call failed!"

\* ------------------------------------------------ get and scan are read-only
\* the step is a get or a scan
ReadStep == nops' = nops + 1 /\ lastOp'.op \in {"get", "scan"}

\* the step repeats the get or scan that came just before it
RepeatsRead ==
  /\ ReadStep /\ lastOp.op = lastOp'.op
  /\ \/ lastOp.op = "get" /\ lastOp'.key = lastOp.key
     \/ lastOp.op = "scan" /\ lastOp'.start = lastOp.start /\ lastOp'.end = lastOp.end

ReadOnly ==
  /\ ReadStep => UNCHANGED <<memtable, sst_count, tree_size, filters, disk>>
  /\ RepeatsRead => lastOp'.panic = NoPanic /\ lastOp'.result = lastOp.result

\* C39: get and scan never change the memtable, the flush counter (sst_count,
\* tree_size), the Bloom filters or the run files, and a get or scan repeated
\* with no write in between returns the same result whatever the state of the
\* page cache.
C39_ReadOnly == [][ReadOnly]_vars

\* a get answered from a run through the page cache was repeated and answered
\* from the cached page
C39_Witness ==
  /\ lastOp.op = "get" /\ lastOp.panic = NoPanic /\ lastOp.result # None
  /\ lastOp.after.op = "get" /\ lastOp.after.key = lastOp.key
  /\ memtable.size = 0 /\ storage_type = "b_tree" /\ pool.curr_size > 0

====
